---------------------------- MODULE Spec2Model ----------------------------
(***************************************************************************)
(* A model of the NestedText decoder of npillmayer/nestext: the line       *)
(* buffer and the scanner (lineBuffer, scanner), the line-level            *)
(* recursive-descent parser (nestedTextParser) with its TopLevel option,   *)
(* and the table-driven automaton for inline lists and dicts               *)
(* (inlineItemParser).                                                     *)
(*                                                                         *)
(* Text is a sequence of one-character strings.  All characters of the     *)
(* model are ASCII, so the byte width w of a rune is 1 and byte offsets    *)
(* (TextPosition, Marker) coincide with character offsets.                 *)
(***************************************************************************)
EXTENDS Integers, Sequences, FiniteSets, TLC

VARIABLES
    doc,      \* the content lines of the input, as the tokens the scanner yields
    parser,   \* the nestedTextParser
    pc,       \* "ready": Parse not yet called; "done": Parse has returned
    result,   \* the value returned by Parse
    err,      \* the error returned by Parse
    call,     \* the arguments of a direct call of inlineItemParser.parse
    ip,       \* that inlineItemParser and the locals of its parse loop
    sc,       \* a scanner on a text, and the tokens it has returned so far
    opts      \* the strings of the TopLevel options passed to Parse

vars == <<doc, parser, pc, result, err, call, ip, sc, opts>>

(***************************************************************************)
(* Bounds of the model.                                                    *)
(***************************************************************************)
MaxLines == 2       \* content lines of a document drawn exhaustively
MaxIndent == 2      \* largest indent of a line drawn exhaustively
MaxInlineLen == 4   \* characters after the opening bracket of an inline text
MaxFairLen == 3     \* the same, for the calls whose termination is checked
MaxLineLen == 3     \* characters of a line of text drawn exhaustively
MaxCalls == 6       \* calls of NextToken on one scanner
MaxOpts == 1        \* options passed to Parse
MaxTextLen == 5     \* bytes of a raw text drawn exhaustively
MaxWidth == 2       \* items of a list that is encoded

\* x := v; F(x): a value computed once and used under a local name
With(v, F(_)) == F(v)

Min(S) == CHOOSE x \in S : \A y \in S : x <= y
Max(S) == CHOOSE x \in S : \A y \in S : y <= x

(***************************************************************************)
(* Text helpers.                                                           *)
(***************************************************************************)
\* unicode.IsSpace restricted to the characters of the model
IsSpace(ch) == ch \in {" ", "\t", "\n"}

\* strings.TrimSpace
TrimSpace(s) ==
    LET keep == {i \in 1..Len(s) : ~IsSpace(s[i])}
    IN  IF keep = {} THEN <<>> ELSE SubSeq(s, Min(keep), Max(keep))

\* Go's s[from:to] on a string, offsets counted from 0
Slice(s, from, to) == SubSeq(s, from + 1, to)

(***************************************************************************)
(* Values: string, []interface{}, map[string]interface{} and nil.  All     *)
(* values are records of one shape; a dict is a function from its keys.    *)
(***************************************************************************)
Nil == [t |-> "nil", s |-> <<>>, v |-> <<>>, m |-> <<>>]
String(s) == [t |-> "string", s |-> s, v |-> <<>>, m |-> <<>>]
List(v) == [t |-> "list", s |-> <<>>, v |-> v, m |-> <<>>]
Dict(m) == [t |-> "dict", s |-> <<>>, v |-> <<>>, m |-> m]

(***************************************************************************)
(* Errors (NestedTextError).  ErrCodeFormat = 200 + iota is the fifth      *)
(* constant of its block, hence 204.                                       *)
(***************************************************************************)
NoError == 0
ErrCodeUsage == 1
ErrCodeIO == 10
ErrCodeSchema == 100
ErrCodeFormat == 204
ErrCodeFormatNoInput == 205
ErrCodeFormatToplevelIndent == 206
ErrCodeFormatIllegalTag == 207

NilError == [Code |-> NoError, msg |-> "", Line |-> 0, Column |-> 0, wrapped |-> ""]

MakeNestedTextError(code, errMsg) ==
    [Code |-> code, msg |-> errMsg, Line |-> 0, Column |-> 0, wrapped |-> ""]

\* WrapError that drops the code and the cause
WrapErrorAsFormat(code, errMsg, cause) == MakeNestedTextError(ErrCodeFormat, errMsg)

WrapError(code, errMsg, cause) ==
    [MakeNestedTextError(code, errMsg) EXCEPT !.wrapped = cause]

makeParsingError(tok, code, errMsg) ==
    [Code |-> code, msg |-> errMsg, Line |-> tok.LineNo, Column |-> tok.ColNo,
     wrapped |-> ""]

(***************************************************************************)
(* The parser stack (pstack) and its entries (parserStackEntry).  A nil    *)
(* *string is [set |-> FALSE]; a nil Keys slice is hasKeys = FALSE.        *)
(***************************************************************************)
NilKey == [set |-> FALSE, s |-> <<>>]
KeyOf(s) == [set |-> TRUE, s |-> s]

parserStackEntry(isDict) ==
    [Values |-> <<>>, Keys |-> <<>>, hasKeys |-> isDict, Key |-> NilKey,
     Error |-> NilError, NontermState |-> 0]

tos(stack) == stack[Len(stack)]

pop(stack) == IF Len(stack) > 0 THEN SubSeq(stack, 1, Len(stack) - 1) ELSE stack

push(stack, entry) == Append(stack, entry)

\* pushKV that appends the value and leaves the key out
pushKVValueOnly(stack, str, val) ==
    [stack EXCEPT ![Len(stack)].Values = Append(@, val)]

\* pushKV appends val, and the key when one is given, to the top-most entry.
\* Every caller pushes a non-terminal first, so the stack is never empty here.
\* A key given for an entry without Keys is dropped (the call returns false).
pushKV(stack, str, val) ==
    LET n == Len(stack)
        withVal == [stack EXCEPT ![n].Values = Append(@, val)]
    IN  IF str.set /\ stack[n].hasKeys
        THEN [withVal EXCEPT ![n].Keys = Append(@, str.s)]
        ELSE withVal

pushKVok(stack, str) == ~(str.set /\ ~tos(stack).hasKeys)

\* ReduceToItem panics ("mixed item") when a dict entry has keys but not as
\* many values as keys.
ReduceToItemPanics(entry) ==
    /\ entry.hasKeys
    /\ Len(entry.Keys) > 0
    /\ Len(entry.Values) # Len(entry.Keys)

\* ReduceToItem that keeps the value of the first occurrence of a key
ReduceToItemFirst(entry) ==
    IF ~entry.hasKeys
    THEN List(entry.Values)
    ELSE Dict([k \in {entry.Keys[i] : i \in 1..Len(entry.Keys)} |->
                 entry.Values[Min({i \in 1..Len(entry.Keys) : entry.Keys[i] = k})]])

\* Later occurrences of a key overwrite earlier ones (dict[key] = value).
ReduceToItem(entry) ==
    IF ~entry.hasKeys
    THEN List(entry.Values)
    ELSE Dict([k \in {entry.Keys[i] : i \in 1..Len(entry.Keys)} |->
                 entry.Values[Max({i \in 1..Len(entry.Keys) : entry.Keys[i] = k})]])

(***************************************************************************)
(* The inline item parser: character classes, the transition table and    *)
(* the actions of the states.                                              *)
(***************************************************************************)
character == 0
whitespace == 1
newline == 2
comma == 3
colon == 4
listOpen == 5
listClose == 6
dictOpen == 7
dictClose == 8

inlineTokenFor(r) ==
    CASE r = " "  -> whitespace
      [] r = "\n" -> newline
      [] r = ","  -> comma
      [] r = ":"  -> colon
      [] r = "["  -> listOpen
      [] r = "]"  -> listClose
      [] r = "{"  -> dictOpen
      [] r = "}"  -> dictClose
      [] OTHER    -> IF IsSpace(r) THEN whitespace ELSE character

e == -1
_S1 == 11
_S2 == 12
_A1 == 13
_A2 == 14

isErrorState(state) == state < 0
isNonterm(state) == state = _S1 \/ state = _S2
isAccept(state) == state = _A1 \/ state = _A2
isGhost(state) == state = 5 \/ state = 10

chClassCnt == 11

\* Columns: A  ws \n ,  :  [  ]  {  }  _S(S1) _S(S2); row i+1 is state i.
inlineStateMachine ==
    << <<e, e, e, e, e, 7, e, 1, e, e, e>>,
       <<2, 2, e, e, 3, e, e, e, _A1, e, e>>,
       <<2, 2, e, e, 3, e, e, e, e, e, e>>,
       <<4, 3, e, 6, e, _S2, e, _S1, _A1, 5, 5>>,
       <<4, 4, e, 6, e, e, e, e, _A1, e, e>>,
       <<e, 5, e, 6, e, e, e, e, _A1, e, e>>,
       <<2, 6, e, e, 3, e, e, e, e, e, e>>,
       <<9, 8, e, 7, 9, _S2, _A2, _S1, e, 10, 10>>,
       <<9, 8, e, 7, 9, _S2, _A2, _S1, e, 10, 10>>,
       <<9, 9, e, 7, 9, e, _A2, e, e, e, e>>,
       <<e, 10, e, 7, e, e, _A2, e, e, e, e>>,
       <<e, e, e, e, e, e, e, 1, e, e, e>>,
       <<e, e, e, e, e, 7, e, e, e, e, e>>,
       <<e, e, e, e, e, e, e, e, e, e, e>>,
       <<e, e, e, e, e, e, e, e, e, e, e>> >>

\* inlineStateMachine[state][class] with Go's indices counted from 0
transition(state, class) == inlineStateMachine[state + 1][class + 1]

\* a non-terminal state as a pseudo character class
_S(s) == (s - _S1) + chClassCnt - 2

\* pushNonterm that initialises Keys for no entry
inlinePushNontermList(p, state) ==
    [p EXCEPT !.stack = push(@, parserStackEntry(FALSE))]

\* inlineItemParser.pushNonterm
inlinePushNonterm(p, state) ==
    [p EXCEPT !.stack = push(@, parserStackEntry(state = _S1))]

\* appendStringValue that appends also an empty fragment of an empty item
appendStringValueAlways(p, acc) ==
    LET value == Slice(p.Text, p.Marker, p.TextPosition)
        key == tos(p.stack).Key
    IN  [p EXCEPT !.stack = pushKV(@, key, String(TrimSpace(value)))]

appendStringValue(p, acc) ==
    LET value == Slice(p.Text, p.Marker, p.TextPosition)
        key == tos(p.stack).Key
    IN  IF key.set
        THEN [p EXCEPT !.stack = pushKV(@, key, String(TrimSpace(value)))]
        ELSE IF ~acc \/ Len(value) > 0 \/ Len(tos(p.stack).Values) > 0
             THEN [p EXCEPT !.stack = pushKV(@, key, String(TrimSpace(value)))]
             ELSE p

nop(p, from, to, ch, w) == p

action1(p, from, to, ch, w) == [p EXCEPT !.Marker = p.TextPosition + w]

\* action3 that keeps the blanks around the key
action3Untrimmed(p, from, to, ch, w) ==
    IF from # 3
    THEN LET key == Slice(p.Text, p.Marker, p.TextPosition)
         IN  [p EXCEPT !.stack[Len(p.stack)].Key = KeyOf(key),
                       !.Marker = p.TextPosition + w]
    ELSE p

action3(p, from, to, ch, w) ==
    IF from # 3
    THEN LET key == TrimSpace(Slice(p.Text, p.Marker, p.TextPosition))
         IN  [p EXCEPT !.stack[Len(p.stack)].Key = KeyOf(key),
                       !.Marker = p.TextPosition + w]
    ELSE p

action6(p, from, to, ch, w) ==
    IF from # 6
    THEN LET p1 == IF p.Marker > 0 /\ ~isGhost(from)
                   THEN appendStringValue(p, FALSE) ELSE p
         IN  [p1 EXCEPT !.stack[Len(p1.stack)].Key = NilKey,
                        !.Marker = p.TextPosition + w]
    ELSE p

action7(p, from, to, ch, w) ==
    LET p1 == IF ch = "," /\ p.Marker > 0 /\ ~isGhost(from)
              THEN appendStringValue(p, FALSE) ELSE p
    IN  [p1 EXCEPT !.Marker = p.TextPosition + w]

actionS(p, from, to, ch, w) ==
    IF from = 3 \/ from = 8 THEN [p EXCEPT !.Marker = 0] ELSE p

accept(p, from, to, ch, w) ==
    IF p.Marker > 0 /\ ~isGhost(from) THEN appendStringValue(p, TRUE) ELSE p

\* inlineStateMachineActions[state](p, from, to, ch, w)
inlineStateMachineActions(state, p, from, to, ch, w) ==
    CASE state = 1 -> action1(p, from, to, ch, w)
      [] state = 3 -> action3(p, from, to, ch, w)
      [] state = 6 -> action6(p, from, to, ch, w)
      [] state = 7 -> action7(p, from, to, ch, w)
      [] state \in {_S1, _S2} -> actionS(p, from, to, ch, w)
      [] state \in {_A1, _A2} -> accept(p, from, to, ch, w)
      [] OTHER -> nop(p, from, to, ch, w)

(***************************************************************************)
(* inlineItemParser.parse, cut at its loop: inlineBegin is the code before *)
(* the loop, inlineLoopBody one iteration (with the test of the loop       *)
(* condition that follows it), inlineAfterLoop the code after the loop.    *)
(* pc is "loop" while the loop runs, "after" when it was left, "returned"  *)
(* when parse has returned, "panic" when the Go runtime panicked.          *)
(***************************************************************************)
newInlineParser ==
    [Text |-> <<>>, TextPosition |-> 0, Marker |-> 0, LineNo |-> 0,
     stack |-> <<>>, oldState |-> 0, state |-> 0,
     result |-> Nil, err |-> NilError, pc |-> "idle", reduced |-> <<>>]

inlineBegin(p, initial, input) ==
    LET p0 == [p EXCEPT !.Text = input, !.stack = <<>>,
                        !.TextPosition = 0, !.Marker = 0,
                        !.result = Nil, !.err = NilError]
        p1 == inlinePushNonterm(p0, initial)
    IN  [p1 EXCEPT !.oldState = 0, !.state = initial, !.pc = "loop"]

\* the accept branch without the push of the item onto the uncovered entry
inlineReduceLost(p) ==
    [p EXCEPT !.result = ReduceToItem(tos(p.stack)),
              !.state = tos(p.stack).NontermState,
              !.reduced = Append(@, tos(p.stack)),
              !.stack = pop(p.stack)]

\* the accept branch of the loop: reduce the top entry, pop it, and push the
\* item onto the uncovered entry; reduced is the history of the entries that
\* ReduceToItem was called on
inlineReduce(p) ==
    IF ReduceToItemPanics(tos(p.stack))
    THEN [p EXCEPT !.pc = "panic", !.reduced = Append(@, tos(p.stack))]
    ELSE LET item == ReduceToItem(tos(p.stack))
             state == tos(p.stack).NontermState
             popped == pop(p.stack)
         IN  [p EXCEPT !.result = item,
                       !.state = state,
                       !.reduced = Append(@, tos(p.stack)),
                       !.stack = IF Len(popped) > 0
                                 THEN pushKV(popped, tos(popped).Key, item)
                                 ELSE popped]

inlineLoopBody(p) ==
    IF p.TextPosition >= Len(p.Text)
    THEN \* ReadRune reports io.EOF: return nil, err
         [p EXCEPT !.result = Nil,
                   !.err = WrapError(ErrCodeIO, "I/O-error reading inline item", "EOF"),
                   !.pc = "returned"]
    ELSE LET ch == p.Text[p.TextPosition + 1]
             w == 1
             chType == inlineTokenFor(ch)
             oldState == p.state
             state1 == transition(p.state, chType)
         IN  IF isErrorState(state1)
             THEN [p EXCEPT !.oldState = oldState, !.state = state1, !.pc = "after"]
             ELSE LET p1 == IF isNonterm(state1)
                            THEN LET pn == inlinePushNonterm(p, state1)
                                 IN  [pn EXCEPT
                                        !.state = transition(state1, chType),
                                        !.stack[Len(pn.stack)].NontermState =
                                            transition(oldState, _S(state1))]
                            ELSE [p EXCEPT !.state = state1]
                  IN  IF isErrorState(p1.state)
                      THEN \* index -1 into inlineStateMachineActions
                           [p1 EXCEPT !.oldState = oldState, !.pc = "panic"]
                      ELSE LET p2 == inlineStateMachineActions(p1.state,
                                         [p1 EXCEPT !.oldState = oldState],
                                         oldState, p1.state, ch, w)
                               p3 == IF isAccept(p2.state) THEN inlineReduce(p2) ELSE p2
                           IN  IF p3.pc = "panic"
                               THEN p3
                               ELSE [p3 EXCEPT
                                       !.TextPosition = @ + w,
                                       !.pc = IF Len(p3.stack) > 0 THEN "loop" ELSE "after"]

\* the code after the loop with a report of text left unread
inlineAfterLoopStrict(p) ==
    IF isErrorState(p.state) \/ p.TextPosition < Len(p.Text)
    THEN [p EXCEPT !.err = makeParsingError(
                              [ColNo |-> p.TextPosition, LineNo |-> p.LineNo],
                              ErrCodeFormat, "format error"),
                   !.pc = "returned"]
    ELSE [p EXCEPT !.pc = "returned"]

\* the code after the loop without its report of the error state
inlineAfterLoopSilent(p) == [p EXCEPT !.pc = "returned"]

inlineAfterLoop(p) ==
    IF isErrorState(p.state)
    THEN LET entryErr == tos(p.stack).Error
             t == [ColNo |-> p.TextPosition, LineNo |-> p.LineNo]
         IN  [p EXCEPT !.err = IF entryErr = NilError
                               THEN makeParsingError(t, ErrCodeFormat, "format error")
                               ELSE entryErr,
                       !.pc = "returned"]
    ELSE [p EXCEPT !.pc = "returned"]

RECURSIVE inlineRun(_)
inlineRun(p) ==
    CASE p.pc = "loop"  -> inlineRun(inlineLoopBody(p))
      [] p.pc = "after" -> inlineRun(inlineAfterLoop(p))
      [] OTHER          -> p

\* the whole of inlineItemParser.parse(initial, input)
inlineParse(p, initial, input) == inlineRun(inlineBegin(p, initial, input))

(***************************************************************************)
(* Tokens (parserToken) and the scanner as the parser sees it: NextToken   *)
(* yields docRoot (or emptyDocument), then one token per content line,     *)
(* then eof.  A line the scanner rejects is a token with Error set.        *)
(***************************************************************************)
undefined == 0
eof == 1
emptyDocument == 2
docRoot == 3
listItem == 4
listItemMultiline == 5
stringMultiline == 6
dictKeyMultiline == 7
inlineList == 8
inlineDict == 9
inlineDictKeyValue == 10
inlineDictKey == 11

parserToken(line, col) ==
    [LineNo |-> line, ColNo |-> col, TokenType |-> undefined, Indent |-> 0,
     Content |-> <<>>, Error |-> NilError]

\* the token of a call made after the input is exhausted
EofToken(line) == [parserToken(line, 0) EXCEPT !.TokenType = eof]

\* the reader nil: a document that no text yields stands for it
NilReader == <<parserToken(0, 0)>>

\* scanner.ScanFileStart: the first token of a document of content lines d
ScanFileStart(d) ==
    IF Len(d) = 0
    THEN [parserToken(1, 0) EXCEPT !.TokenType = emptyDocument]
    ELSE LET t == [parserToken(d[1].LineNo, 0) EXCEPT !.TokenType = docRoot]
         IN  IF d[1].Indent > 0
             THEN [t EXCEPT !.Error = makeParsingError(t,
                        ErrCodeFormatToplevelIndent,
                        "top-level item must not be indented")]
             ELSE t

\* the token returned by the n-th call of scanner.NextToken
NextToken(d, n) ==
    IF Len(d) > 0 /\ d[1].TokenType \in {docRoot, emptyDocument}
    THEN \* d lists every token the scanner returned, the first included
         IF n <= Len(d) THEN d[n] ELSE EofToken(Len(d))
    ELSE IF n = 1 THEN ScanFileStart(d)
    ELSE IF n - 1 <= Len(d) THEN d[n - 1]
    ELSE EofToken(Len(d) + 1)

(***************************************************************************)
(* The line buffer and the scanner, character by character.  A text is the *)
(* sequence of its lines, as bufio.Scanner splits it; a line is a sequence *)
(* of characters.  The reader Line is the text it reads; its position is   *)
(* ByteCursor.  Reading a string never fails, so the only error of the     *)
(* buffer is errAtEof.                                                     *)
(***************************************************************************)
eolMarker == "\n"

\* errors.New("EOF"): an error that is no NestedTextError
errAtEof == [NilError EXCEPT !.msg = "EOF"]

\* bytes.IndexByte, counted from 1; 0 if c is not in data
IndexByte(data, c) ==
    IF \E i \in 1..Len(data) : data[i] = c
    THEN CHOOSE i \in 1..Len(data) :
             data[i] = c /\ \A j \in 1..(i - 1) : data[j] # c
    ELSE 0

\* bufio's dropCR: data without one trailing CR
dropCR(data) ==
    IF Len(data) > 0 /\ data[Len(data)] = "\r"
    THEN SubSeq(data, 1, Len(data) - 1)
    ELSE data

\* bufio.ScanLines(data, atEOF); ok is false where the token is nil
bufioScanLines(data, atEOF) ==
    IF atEOF /\ Len(data) = 0
    THEN [advance |-> 0, token |-> <<>>, ok |-> FALSE]
    ELSE IF IndexByte(data, "\n") > 0
    THEN [advance |-> IndexByte(data, "\n"),
          token |-> dropCR(SubSeq(data, 1, IndexByte(data, "\n") - 1)),
          ok |-> TRUE]
    ELSE IF atEOF
    THEN [advance |-> Len(data), token |-> dropCR(data), ok |-> TRUE]
    ELSE [advance |-> 0, token |-> <<>>, ok |-> FALSE]

\* the split function without its loop over data
splitScanLines(data, atEOF) == bufioScanLines(data, atEOF)

\* the split function of newLineBuffer; data[i] here is data[i-1] there
split(data, atEOF) ==
    With(bufioScanLines(data, atEOF),
         LAMBDA r :
            LET cr == {i \in 1..Len(data) :
                          /\ data[i] = "\r"
                          /\ i < Len(data)
                          /\ i <= Len(r.token)
                          /\ data[i + 1] # "\n"}
            IN  IF cr = {} THEN r
                ELSE LET i == CHOOSE m \in cr : \A n \in cr : m <= n
                     IN  [advance |-> i, token |-> SubSeq(data, 1, i - 1),
                          ok |-> TRUE])

\* the characters \s matches that can stand in a line: CR and LF end a line
WhiteSpace == {" ", "\t", "\f"}

\* IsIgnoredLine without the pattern of comment lines
IsIgnoredLineBlankOnly(text) == \A i \in 1..Len(text) : text[i] \in WhiteSpace

\* IsIgnoredLine with a pattern of comment lines that is not anchored
IsIgnoredLineAnyHash(text) ==
    \/ \A i \in 1..Len(text) : text[i] \in WhiteSpace
    \/ \E i \in 1..Len(text) : text[i] = "#"

\* lineBuffer.IsIgnoredLine: ^\s*$ or ^\s*#
IsIgnoredLine(text) ==
    \/ \A i \in 1..Len(text) : text[i] \in WhiteSpace
    \/ \E i \in 1..Len(text) :
           text[i] = "#" /\ \A j \in 1..(i - 1) : text[j] \in WhiteSpace

IsEof(buf) == buf.isEof >= 2 \/ Len(buf.Line) = 0

\* lineBuffer.AdvanceCursor with readRune; it returns no error (isEof <= 2)
AdvanceCursor(buf) ==
    IF buf.ByteCursor >= Len(buf.Line)
    THEN [buf EXCEPT !.Lookahead = eolMarker]
    ELSE [buf EXCEPT !.Lookahead = buf.Line[buf.ByteCursor + 1],
                     !.ByteCursor = @ + 1,
                     !.Cursor = @ + 1]

\* the loop of AdvanceLine and the code after it
RECURSIVE readLines(_)
readLines(buf) ==
    IF buf.Scanned >= Len(buf.Input)
    THEN [buf |-> [buf EXCEPT !.CurrentLine = @ + 1, !.isEof = 1, !.Line = <<>>],
          err |-> errAtEof]
    ELSE IF IsIgnoredLine(buf.Input[buf.Scanned + 1])
    THEN readLines([buf EXCEPT !.CurrentLine = @ + 1, !.Scanned = @ + 1,
                               !.Text = buf.Input[buf.Scanned + 1]])
    ELSE [buf |-> AdvanceCursor([buf EXCEPT !.CurrentLine = @ + 1,
                                            !.Scanned = @ + 1,
                                            !.Text = buf.Input[buf.Scanned + 1],
                                            !.Line = buf.Input[buf.Scanned + 1]]),
          err |-> NilError]

\* lineBuffer.AdvanceLine: the buffer after it, and the error it returns
AdvanceLine(buf) ==
    IF buf.isEof = 1
    THEN [buf |-> [buf EXCEPT !.Cursor = 0, !.ByteCursor = 0, !.isEof = 2],
          err |-> errAtEof]
    ELSE IF buf.isEof = 0
    THEN readLines([buf EXCEPT !.Cursor = 0, !.ByteCursor = 0])
    ELSE [buf |-> AdvanceCursor([buf EXCEPT !.Cursor = 0, !.ByteCursor = 0,
                                            !.Line = buf.Text]),
          err |-> NilError]

\* newLineBuffer on a reader that yields the lines of input
newLineBuffer(input) ==
    AdvanceLine([Lookahead |-> "", Cursor |-> 0, ByteCursor |-> 0,
                 CurrentLine |-> 0, Input |-> input, Scanned |-> 0,
                 Text |-> <<>>, Line |-> <<>>, isEof |-> 0,
                 LastError |-> NilError]).buf

\* lineBuffer.ReadLineRemainder: the buffer after it, and the string
ReadLineRemainder(buf) ==
    With(AdvanceLine(buf),
         LAMBDA a :
            [buf |-> [a.buf EXCEPT !.LastError = a.err],
             s   |-> IF IsEof(buf) THEN <<>>
                     ELSE IF buf.ByteCursor = Len(buf.Line) THEN <<buf.Lookahead>>
                     ELSE IF buf.ByteCursor > Len(buf.Line) THEN <<>>
                     ELSE <<buf.Lookahead>>
                              \o SubSeq(buf.Text, buf.ByteCursor + 1, Len(buf.Line))])

\* lineBuffer.match(singleRune(r)): the buffer after it (no caller reads the
\* boolean it returns)
match(buf, r) ==
    IF IsEof(buf) \/ buf.LastError # NilError THEN buf
    ELSE IF buf.Lookahead # r THEN buf
    ELSE IF buf.Lookahead = eolMarker THEN AdvanceLine(buf).buf
    ELSE AdvanceCursor(buf)

\* newScanner(inputReader); Step names the next step function, "nil" for nil
newScanner(input) ==
    [Buf |-> newLineBuffer(input), Step |-> "ScanFileStart", LastError |-> NilError]

\* what a step function returns, with the scanner it leaves; halt is "hang"
\* if it does not return and "panic" if it panics
Stepped(s, token, step) == [sc |-> s, token |-> token, step |-> step, halt |-> ""]
Halted(s, token, how) == [sc |-> s, token |-> token, step |-> "nil", halt |-> how]

\* ScanFileStart without the look at the first character
ScanFileStartStepAnyIndent(s, token) ==
    IF IsEof(s.Buf)
    THEN Stepped(s, [token EXCEPT !.TokenType = emptyDocument], "nil")
    ELSE Stepped(s, [token EXCEPT !.TokenType = docRoot, !.Indent = 0], "nil")

\* scanner.ScanFileStart at the level of characters
ScanFileStartStep(s, token) ==
    IF IsEof(s.Buf)
    THEN Stepped(s, [token EXCEPT !.TokenType = emptyDocument], "nil")
    ELSE IF s.Buf.Lookahead = " "
    THEN Stepped(s, [token EXCEPT !.TokenType = docRoot, !.Indent = 0,
                                  !.Error = makeParsingError(token,
                                        ErrCodeFormatToplevelIndent,
                                        "top-level item must not be indented")],
                 "nil")
    ELSE Stepped(s, [token EXCEPT !.TokenType = docRoot, !.Indent = 0], "nil")

ScanItem(s, token) ==
    Stepped(s, token,
            IF s.Buf.Lookahead = " " THEN "ScanIndentation" ELSE "ScanItemBody")

\* scanner.ScanIndentation, all its repetitions; a buffer that match leaves
\* as it is keeps the step repeating forever
RECURSIVE ScanIndentation(_, _)
ScanIndentation(s, token) ==
    IF s.Buf.Lookahead = " "
    THEN IF match(s.Buf, " ") = s.Buf
         THEN Halted(s, token, "hang")
         ELSE ScanIndentation([s EXCEPT !.Buf = match(s.Buf, " ")],
                              [token EXCEPT !.Indent = @ + 1])
    ELSE Stepped(s, token, "ScanItemBody")

\* recognizeItemTag that takes every character after the tag for a space
recognizeItemTagLenient(s, tag, single, multi, token) ==
    With(ReadLineRemainder(AdvanceCursor(match(s.Buf, tag))),
         LAMBDA rd :
            Stepped([s EXCEPT !.Buf = rd.buf],
                    [token EXCEPT !.TokenType = single, !.Content = <<rd.s>>],
                    "nil"))

\* scanner.recognizeItemTag; the message does not spell the characters
recognizeItemTag(s, tag, single, multi, token) ==
    With(match(s.Buf, tag),
         LAMBDA b :
            IF b.Lookahead = " "
            THEN With(ReadLineRemainder(match(b, " ")),
                      LAMBDA rd :
                         Stepped([s EXCEPT !.Buf = rd.buf],
                                 [token EXCEPT !.TokenType = single,
                                               !.Content = <<rd.s>>],
                                 "nil"))
            ELSE IF b.Lookahead # eolMarker
            THEN Stepped([s EXCEPT !.Buf = b],
                         [token EXCEPT !.Error = makeParsingError(token,
                               ErrCodeFormatIllegalTag,
                               "item tag followed by illegal character")],
                         "nil")
            ELSE Stepped([s EXCEPT !.Buf = match(b, eolMarker)],
                         [token EXCEPT !.TokenType = multi], "nil"))

\* scanner.recognizeInlineItem; indexing the empty Text panics
recognizeInlineItem(s, toktype, token) ==
    IF Len(s.Buf.Text) = 0 THEN Halted(s, token, "panic")
    ELSE With(ReadLineRemainder(s.Buf),
              LAMBDA rd :
                 Stepped([s EXCEPT !.Buf = rd.buf],
                         [token EXCEPT
                            !.Error = IF s.Buf.Text[Len(s.Buf.Text)] # s.Buf.Lookahead
                                      THEN makeParsingError(token,
                                               ErrCodeFormatIllegalTag,
                                               "inline-item does not match opening tag")
                                      ELSE @,
                            !.TokenType = toktype,
                            !.Content = <<rd.s>>],
                         "nil"))

ScanItemBody(s, token) ==
    CASE s.Buf.Lookahead = "-" ->
             recognizeItemTag(s, "-", listItem, listItemMultiline, token)
      [] s.Buf.Lookahead = ">" ->
             recognizeItemTag(s, ">", stringMultiline, stringMultiline, token)
      [] s.Buf.Lookahead = ":" ->
             recognizeItemTag(s, ":", dictKeyMultiline, dictKeyMultiline, token)
      [] s.Buf.Lookahead = "[" -> recognizeInlineItem(s, inlineList, token)
      [] s.Buf.Lookahead = "{" -> recognizeInlineItem(s, inlineDict, token)
      [] OTHER -> Stepped(s, token, "ScanInlineKey")

\* scanner.ScanInlineKey: it sets nothing of the token
ScanInlineKey(s, token) ==
    IF s.Buf.Lookahead = ":"
    THEN Stepped([s EXCEPT !.Buf = match(s.Buf, ":")], token, "nil")
    ELSE Stepped(s, token, "nil")

\* the step function named step
ApplyStep(step, s, token) ==
    CASE step = "ScanFileStart"   -> ScanFileStartStep(s, token)
      [] step = "ScanItem"        -> ScanItem(s, token)
      [] step = "ScanIndentation" -> ScanIndentation(s, token)
      [] step = "ScanItemBody"    -> ScanItemBody(s, token)
      [] step = "ScanInlineKey"   -> ScanInlineKey(s, token)

\* the loop of scanner.NextToken
RECURSIVE runSteps(_, _, _)
runSteps(s, token, step) ==
    IF step = "nil"
    THEN [sc |-> [s EXCEPT !.Step = "nil"], token |-> token, halt |-> ""]
    ELSE With(ApplyStep(step, s, token),
              LAMBDA r :
                 IF r.halt # ""
                 THEN [sc |-> r.sc, token |-> r.token, halt |-> r.halt]
                 ELSE IF r.token.Error # NilError
                 THEN [sc |-> [r.sc EXCEPT !.Step = r.step,
                                           !.LastError = r.token.Error],
                       token |-> r.token, halt |-> ""]
                 ELSE runSteps(r.sc, r.token, r.step))

\* scanner.NextToken at the level of characters: the scanner after the
\* call and the token it returns
scannerNextToken(s) ==
    runSteps(s, parserToken(s.Buf.CurrentLine, s.Buf.Cursor),
             IF s.Step = "nil" THEN "ScanItem" ELSE s.Step)

\* a scanner that was not created
NoScanner == [s |-> newScanner(<<>>), tokens |-> <<>>, halt |-> ""]

(***************************************************************************)
(* The line-level parser.  A parser p is the record of nestedTextParser's  *)
(* fields; n counts the NextToken calls made so far.  Every function       *)
(* returns the parser together with its Go results.                        *)
(***************************************************************************)
newParser ==
    [d |-> <<>>, n |-> 0, token |-> parserToken(0, 0), inline |-> newInlineParser,
     toplevel |-> <<>>, stack |-> <<>>, panic |-> "", calls |-> <<>>,
     reduced |-> <<>>]

Ret(p, res, error) == [p |-> p, result |-> res, err |-> error]
RetKV(p, key, value, error) == [p |-> p, key |-> key, value |-> value, err |-> error]

\* p.token = p.sc.NextToken()
advance(p) == [p EXCEPT !.n = @ + 1, !.token = NextToken(p.d, p.n + 1)]

\* the record of a call that returned: which function, at which indent, the
\* index of the current token before and after, and what it returned
Called(r, fn, indent, from) ==
    [r EXCEPT !.p.calls = Append(@, [fn |-> fn, indent |-> indent, from |-> from,
                                     to |-> r.p.n, key |-> NilKey,
                                     result |-> r.result, err |-> r.err])]

CalledKV(r, fn, indent, from) ==
    [r EXCEPT !.p.calls = Append(@, [fn |-> fn, indent |-> indent, from |-> from,
                                     to |-> r.p.n, key |-> r.key,
                                     result |-> r.value, err |-> r.err])]

allowVoid(val, i) == IF Len(val) <= i THEN <<>> ELSE val[i + 1]

pushNonterm(p, isDict) == [p EXCEPT !.stack = push(@, parserStackEntry(isDict))]

invalidIndent ==
    MakeNestedTextError(ErrCodeFormat,
        "invalid indent: may only follow an item that does not already have a value")

RECURSIVE parseAny(_, _)
RECURSIVE parseList(_, _)
RECURSIVE parseListItems(_, _)
RECURSIVE parseListItemMultiline(_, _)
RECURSIVE parseDict(_, _)
RECURSIVE parseDictKeyValuePairs(_, _)
RECURSIVE parseDictKeyAnyValuePair(_, _)
RECURSIVE parseDictKeyValuePairWithMultilineKey(_, _)

\* the loop of parseMultiString without its test of the indent
RECURSIVE multiStringLoopAnyIndent(_, _, _)
multiStringLoopAnyIndent(p, indent, b) ==
    LET p1 == advance(p)
    IN  IF p1.token.Error # NilError
        THEN Ret(p1, String(b), p1.token.Error)
        ELSE IF p1.token.TokenType # stringMultiline
             THEN Ret(p1, String(b), NilError)
             ELSE multiStringLoopAnyIndent(p1, indent,
                      b \o <<"\n">> \o allowVoid(p1.token.Content, 0))

\* the loop of parseMultiString: b is the builder's content so far
RECURSIVE multiStringLoop(_, _, _)
multiStringLoop(p, indent, b) ==
    LET p1 == advance(p)
    IN  IF p1.token.Error # NilError
        THEN Ret(p1, String(b), p1.token.Error)
        ELSE IF p1.token.TokenType # stringMultiline \/ p1.token.Indent # indent
             THEN Ret(p1, String(b), NilError)
             ELSE multiStringLoop(p1, indent,
                      b \o <<"\n">> \o allowVoid(p1.token.Content, 0))

parseMultiString(p, indent) ==
    IF p.token.Indent # indent
    THEN Ret(p, Nil, NilError)
    ELSE Called(multiStringLoop(p, indent, allowVoid(p.token.Content, 0)),
                "parseMultiString", indent, p.n)

\* the inlineList and inlineDict cases of parseAny
parseInline(p, initial) ==
    With(inlineParse([p.inline EXCEPT !.LineNo = p.token.LineNo],
                     initial, p.token.Content[1]),
         LAMBDA q :
            With([p EXCEPT !.inline = q,
                           !.panic = IF q.pc = "panic" THEN "inline" ELSE @],
                 LAMBDA p1 :
                    IF q.err = NilError
                    THEN With(advance(p1),
                              LAMBDA p2 :
                                 IF p2.token.Error # NilError
                                 THEN Ret(p2, Nil, p2.token.Error)
                                 ELSE Ret(p2, q.result, q.err))
                    ELSE Ret(p1, q.result, q.err)))

\* parseListItem without its test for a deeper token
parseListItemAnyDepth(p, indent) ==
    IF p.token.Indent < indent THEN Ret(p, Nil, NilError)
    ELSE LET value == String(p.token.Content[1])
             p1 == advance(p)
         IN  IF p1.token.Error # NilError
             THEN Ret(p1, Nil, p1.token.Error)
             ELSE Ret(p1, value, NilError)

parseListItemBody(p, indent) ==
    IF p.token.Indent > indent THEN Ret(p, Nil, invalidIndent)
    ELSE IF p.token.Indent < indent THEN Ret(p, Nil, NilError)
    ELSE LET value == String(p.token.Content[1])
             p1 == advance(p)
         IN  IF p1.token.Error # NilError
             THEN Ret(p1, Nil, p1.token.Error)
             ELSE Ret(p1, value, NilError)

parseListItem(p, indent) ==
    Called(parseListItemBody(p, indent), "parseListItem", indent, p.n)

parseAny(p, indent) ==
    Called(IF p.token.Indent < indent THEN Ret(p, Nil, NilError)
           ELSE CASE p.token.TokenType = stringMultiline ->
                         parseMultiString(p, p.token.Indent)
                  [] p.token.TokenType = inlineList -> parseInline(p, _S2)
                  [] p.token.TokenType = inlineDict -> parseInline(p, _S1)
                  [] p.token.TokenType \in {listItem, listItemMultiline} ->
                         parseList(p, indent)
                  [] p.token.TokenType \in {inlineDictKeyValue, inlineDictKey,
                                            dictKeyMultiline} ->
                         parseDict(p, indent)
                  [] OTHER -> Ret([p EXCEPT !.panic = "unknown item type"],
                                  Nil, NilError),
           "parseAny", indent, p.n)

parseList(p, indent) ==
    With(parseListItems(pushNonterm(p, FALSE), p.token.Indent),
         LAMBDA r :
            IF r.err # NilError
            THEN Called(Ret(r.p, Nil, r.err), "parseList", indent, p.n)
            ELSE Called(Ret([r.p EXCEPT !.stack = pop(@),
                                        !.reduced = Append(@, tos(r.p.stack))],
                            ReduceToItem(tos(r.p.stack)), NilError),
                        "parseList", indent, p.n))

parseListItems(p, indent) ==
    IF p.token.TokenType \notin {listItem, listItemMultiline}
    THEN Ret(p, List(tos(p.stack).Values), NilError)
    ELSE With(IF p.token.TokenType = listItem
              THEN parseListItem(p, indent)
              ELSE parseListItemMultiline(p, indent),
              LAMBDA r :
                 IF r.result # Nil /\ r.err = NilError
                 THEN parseListItems(
                          [r.p EXCEPT !.stack = pushKV(@, NilKey, r.result)], indent)
                 ELSE IF r.err # NilError
                      THEN Ret(r.p, Nil, r.err)
                      ELSE Ret(r.p, List(tos(r.p.stack).Values), r.err))

\* parseListItemMultiline that gives "" also when a deeper block follows
parseListItemMultilineShallow(p, indent) ==
    Called(IF p.token.Indent # indent THEN Ret(p, Nil, NilError)
           ELSE LET p1 == advance(p)
                IN  IF p1.token.Error # NilError THEN Ret(p1, Nil, p1.token.Error)
                    ELSE IF p1.token.Indent <= indent
                         THEN Ret(p1, String(<<>>), NilError)
                         ELSE With(parseAny(p1, p1.token.Indent),
                                   LAMBDA r :
                                      IF r.p.token.Indent > indent
                                      THEN Ret(r.p, Nil, invalidIndent)
                                      ELSE Ret(r.p, String(<<>>), r.err)),
           "parseListItemMultiline", indent, p.n)

parseListItemMultiline(p, indent) ==
    Called(IF p.token.Indent # indent THEN Ret(p, Nil, NilError)
           ELSE LET p1 == advance(p)
                IN  IF p1.token.Error # NilError THEN Ret(p1, Nil, p1.token.Error)
                    ELSE IF p1.token.Indent <= indent
                         THEN Ret(p1, String(<<>>), NilError)
                         ELSE With(parseAny(p1, p1.token.Indent),
                                   LAMBDA r :
                                      IF r.p.token.Indent > indent
                                      THEN Ret(r.p, Nil, invalidIndent)
                                      ELSE r),
           "parseListItemMultiline", indent, p.n)

\* parseDict without its test for a partial dedent
parseDictAnyDedent(p, indent) ==
    With(parseDictKeyValuePairs(pushNonterm(p, TRUE), p.token.Indent),
         LAMBDA r :
            IF r.err # NilError
            THEN Called(Ret(r.p, Nil, r.err), "parseDict", indent, p.n)
            ELSE Called(Ret([r.p EXCEPT !.stack = pop(@)],
                            ReduceToItem(tos(r.p.stack)), NilError),
                        "parseDict", indent, p.n))

parseDict(p, indent) ==
    With(parseDictKeyValuePairs(pushNonterm(p, TRUE), p.token.Indent),
         LAMBDA r :
            IF r.err # NilError
            THEN Called(Ret(r.p, Nil, r.err), "parseDict", indent, p.n)
            ELSE Called(Ret([r.p EXCEPT !.stack = pop(@),
                                        !.reduced = Append(@, tos(r.p.stack)),
                                        !.panic = IF ReduceToItemPanics(tos(r.p.stack))
                                                  THEN "mixed item" ELSE @],
                            ReduceToItem(tos(r.p.stack)),
                            IF r.p.token.Indent > indent
                            THEN MakeNestedTextError(ErrCodeFormat, "partial dedent")
                            ELSE NilError),
                        "parseDict", indent, p.n))

\* parseDictKeyValuePair that parses the value as an inline list
parseDictKeyValuePairInline(p, indent) ==
    CalledKV(IF p.token.Indent # indent THEN RetKV(p, NilKey, Nil, NilError)
             ELSE LET key == p.token.Content[1]
                      value == inlineParse(p.inline, _S2, p.token.Content[2]).result
                      p1 == advance(p)
                  IN  IF p1.token.Error # NilError
                      THEN RetKV(p1, NilKey, Nil, p1.token.Error)
                      ELSE RetKV(p1, KeyOf(key), value, NilError),
             "parseDictKeyValuePair", indent, p.n)

parseDictKeyValuePair(p, indent) ==
    CalledKV(IF p.token.Indent # indent THEN RetKV(p, NilKey, Nil, NilError)
             ELSE LET key == p.token.Content[1]
                      value == p.token.Content[2]
                      p1 == advance(p)
                  IN  IF p1.token.Error # NilError
                      THEN RetKV(p1, NilKey, Nil, p1.token.Error)
                      ELSE RetKV(p1, KeyOf(key), String(value), NilError),
             "parseDictKeyValuePair", indent, p.n)

parseDictKeyAnyValuePair(p, indent) ==
    CalledKV(IF p.token.Indent # indent THEN RetKV(p, NilKey, Nil, NilError)
             ELSE LET key == KeyOf(p.token.Content[1])
                      p1 == advance(p)
                  IN  IF p1.token.Error # NilError
                      THEN RetKV(p1, key, Nil, p1.token.Error)
                      ELSE IF p1.token.Indent <= indent
                           THEN RetKV(p1, key, String(<<>>), NilError)
                           ELSE With(parseAny(p1, p1.token.Indent),
                                     LAMBDA r : RetKV(r.p, key, r.result, r.err)),
             "parseDictKeyAnyValuePair", indent, p.n)

\* the loop of parseDictKeyValuePairWithMultilineKey, joining the key lines
\* without a separator
RECURSIVE multiKeyLoopNoSeparator(_, _, _)
multiKeyLoopNoSeparator(p, indent, b) ==
    LET p1 == advance(p)
    IN  IF p1.token.Error # NilError
        THEN RetKV(p1, NilKey, Nil, p1.token.Error)
        ELSE IF p1.token.TokenType # dictKeyMultiline \/ p1.token.Indent # indent
             THEN RetKV(p1, KeyOf(b), Nil, NilError)
             ELSE multiKeyLoopNoSeparator(p1, indent,
                      b \o allowVoid(p1.token.Content, 0))

\* the loop of parseDictKeyValuePairWithMultilineKey that merges the key lines
RECURSIVE multiKeyLoop(_, _, _)
multiKeyLoop(p, indent, b) ==
    LET p1 == advance(p)
    IN  IF p1.token.Error # NilError
        THEN RetKV(p1, NilKey, Nil, p1.token.Error)
        ELSE IF p1.token.TokenType # dictKeyMultiline \/ p1.token.Indent # indent
             THEN RetKV(p1, KeyOf(b), Nil, NilError)
             ELSE multiKeyLoop(p1, indent,
                      b \o <<"\n">> \o allowVoid(p1.token.Content, 0))

parseDictKeyValuePairWithMultilineKey(p, indent) ==
    CalledKV(IF p.token.Indent # indent THEN RetKV(p, NilKey, Nil, NilError)
             ELSE With(multiKeyLoop(p, indent, allowVoid(p.token.Content, 0)),
                       LAMBDA k :
                          IF k.err # NilError THEN k
                          ELSE IF k.p.token.Indent <= indent
                               THEN RetKV(k.p, k.key, String(<<>>), NilError)
                               ELSE With(parseAny(k.p, k.p.token.Indent),
                                         LAMBDA r :
                                            RetKV(r.p, k.key, r.result, r.err))),
             "parseDictKeyValuePairWithMultilineKey", indent, p.n)

parseDictKeyValuePairs(p, indent) ==
    IF p.token.TokenType \notin {inlineDictKeyValue, inlineDictKey, dictKeyMultiline}
    THEN Ret(p, Nil, NilError)
    ELSE With(CASE p.token.TokenType = inlineDictKeyValue ->
                       parseDictKeyValuePair(p, indent)
                [] p.token.TokenType = inlineDictKey ->
                       parseDictKeyAnyValuePair(p, indent)
                [] p.token.TokenType = dictKeyMultiline ->
                       parseDictKeyValuePairWithMultilineKey(p, indent),
              LAMBDA kv :
                 IF kv.value # Nil
                 THEN IF kv.err # NilError
                      THEN Ret(kv.p, Nil, kv.err)
                      ELSE parseDictKeyValuePairs(
                               [kv.p EXCEPT !.stack = pushKV(@, kv.key, kv.value)],
                               indent)
                 ELSE Ret(kv.p, Nil, kv.err))

\* parseDocument without its test for Eof after the top-level value
parseDocumentAnyRest(p) ==
    LET p1 == advance(p)
    IN  IF p1.token.Error # NilError THEN Ret(p1, Nil, p1.token.Error)
        ELSE IF p1.token.TokenType \in {eof, emptyDocument} THEN Ret(p1, Nil, NilError)
        ELSE LET p2 == advance(p1)
             IN  IF p2.token.Error # NilError THEN Ret(p2, Nil, p2.token.Error)
                 ELSE parseAny(p2, 0)

parseDocument(p) ==
    LET p1 == advance(p)
    IN  IF p1.token.Error # NilError THEN Ret(p1, Nil, p1.token.Error)
        ELSE IF p1.token.TokenType \in {eof, emptyDocument} THEN Ret(p1, Nil, NilError)
        ELSE LET p2 == advance(p1)
             IN  IF p2.token.Error # NilError THEN Ret(p2, Nil, p2.token.Error)
                 ELSE With(parseAny(p2, 0),
                           LAMBDA r :
                              IF r.err = NilError /\ r.p.token.TokenType # eof
                              THEN Ret(r.p, r.result,
                                       makeParsingError(r.p.token, ErrCodeFormat,
                                           "unused content following valid input"))
                              ELSE r)

\* wrapResult that wraps nothing
wrapResultKeep(p, res) == res

\* wrapResult wraps the result according to the TopLevel option
wrapResult(p, res) ==
    CASE p.toplevel = <<>> -> res
      [] p.toplevel = <<"l", "i", "s", "t">> ->
             IF res.t # "list" THEN List(<<res>>) ELSE res
      [] p.toplevel = <<"d", "i", "c", "t">> ->
             IF res.t # "dict"
             THEN Dict([k \in {<<"n", "e", "s", "t", "e", "d", "t", "e", "x", "t">>} |-> res])
             ELSE res
      [] OTHER -> Dict([k \in {p.toplevel} |-> res])

\* nestedTextParser.Parse on a reader that yields the content lines d
ParserParse(p, d) ==
    IF d = NilReader
    THEN Ret(p, Nil, MakeNestedTextError(ErrCodeFormatNoInput, "no input present"))
    ELSE With(parseDocument([p EXCEPT !.d = d, !.n = 0]),
              LAMBDA r :
                 IF r.err = NilError
                 THEN Ret(r.p, wrapResult(r.p, r.result), NilError)
                 ELSE r)

HasPrefix(str, prefix) ==
    Len(str) >= Len(prefix) /\ SubSeq(str, 1, Len(prefix)) = prefix

\* TopLevel that takes every string that is no mode for a key
TopLevelAnyString(p, top) ==
    IF top \in {<<"d", "i", "c", "t">>, <<"l", "i", "s", "t">>}
    THEN [p |-> [p EXCEPT !.toplevel = top], err |-> NilError]
    ELSE [p |-> [p EXCEPT !.toplevel = SubSeq(top, 6, Len(top))], err |-> NilError]

\* the Option TopLevel(top), applied to p: the parser and the error
TopLevel(p, top) ==
    CASE top = <<"d", "i", "c", "t">> ->
             [p |-> [p EXCEPT !.toplevel = <<"d", "i", "c", "t">>], err |-> NilError]
      [] top = <<"l", "i", "s", "t">> ->
             [p |-> [p EXCEPT !.toplevel = <<"l", "i", "s", "t">>], err |-> NilError]
      [] OTHER ->
             IF HasPrefix(top, <<"d", "i", "c", "t", ".">>)
             THEN [p |-> [p EXCEPT !.toplevel = SubSeq(top, 6, Len(top))],
                   err |-> NilError]
             ELSE [p |-> p,
                   err |-> MakeNestedTextError(ErrCodeUsage, "option TopLevel")]

\* Parse(r, opts...): the options are applied in order, the first error of
\* an option is returned
RECURSIVE ParseWithOptions(_, _, _)
ParseWithOptions(p, d, os) ==
    IF Len(os) = 0 THEN ParserParse(p, d)
    ELSE With(TopLevel(p, Head(os)),
              LAMBDA o : IF o.err # NilError THEN Ret(o.p, Nil, o.err)
                         ELSE ParseWithOptions(o.p, d, Tail(os)))

(***************************************************************************)
(* The inputs.  Line i of a document carries the digit of i in its text,   *)
(* so that every value shows which line it came from; the text of a value  *)
(* is bracketed ("[1]"), so a value that was parsed further shows as a     *)
(* list.  A line is one of the tokens the scanner can yield for it, at any *)
(* indent up to MaxIndent, or a line the scanner rejects.                  *)
(***************************************************************************)
Digit(i) == <<"1", "2", "3", "4", "5", "6", "7", "8", "9">>[i]
LineText(i) == <<"[", Digit(i), "]">>
KeyA == <<"a">>
KeyB == <<"b">>

Tok(i, ind, type, content) ==
    [LineNo |-> i, ColNo |-> 0, TokenType |-> type, Indent |-> ind,
     Content |-> content, Error |-> NilError]

\* a line whose tag character is followed by an illegal character
IllegalTagLine(i) ==
    LET t == Tok(i, 0, undefined, <<>>)
    IN  [t EXCEPT !.Error = makeParsingError(t, ErrCodeFormatIllegalTag,
                                "item tag followed by illegal character")]

\* the token of line i for the variant v of a line at indent ind
LineToken(i, ind, v) ==
    CASE v = 1  -> Tok(i, ind, listItem, <<LineText(i)>>)
      [] v = 2  -> Tok(i, ind, listItemMultiline, <<>>)
      [] v = 3  -> Tok(i, ind, stringMultiline, <<>>)
      [] v = 4  -> Tok(i, ind, stringMultiline, <<LineText(i)>>)
      [] v = 5  -> Tok(i, ind, dictKeyMultiline, <<>>)
      [] v = 6  -> Tok(i, ind, dictKeyMultiline, <<KeyA>>)
      [] v = 7  -> Tok(i, ind, inlineList, <<LineText(i)>>)
      [] v = 8  -> Tok(i, ind, inlineList, <<<<"[">> \o LineText(i) \o <<"x", "]">>>>)
      [] v = 9  -> Tok(i, ind, inlineDict, <<<<"{", "a", ":">> \o LineText(i) \o <<"}">>>>)
      [] v = 10 -> Tok(i, ind, inlineDict, <<<<"{", "a">>>>)
      [] v = 11 -> Tok(i, ind, inlineDictKeyValue, <<KeyA, LineText(i)>>)
      [] v = 12 -> Tok(i, ind, inlineDictKeyValue, <<KeyB, LineText(i)>>)
      [] v = 13 -> Tok(i, ind, inlineDictKey, <<KeyA>>)
      [] v = 14 -> Tok(i, ind, inlineDict,
                       <<<<"{", "a", ":", "x", ",", "a", ":", Digit(i), "}">>>>)
      [] OTHER  -> IllegalTagLine(i)

\* the variants of a line that the scanner accepts
Variants == 1..13

\* a line is chosen by its indent and its variant; <<0, 0>> is the rejected line
LineChoices == ((0..MaxIndent) \X Variants) \cup {<<0, 0>>}

DocOf(c) == [i \in 1..Len(c) |-> LineToken(i, c[i][1], c[i][2])]

\* Longer documents: those of TestTableParse and of the README, and
\* documents that nest three levels or dedent between two open levels.
Scenarios ==
    { <<<<0, 1>>, <<0, 2>>, <<2, 4>>, <<2, 4>>>>,   \* - H / - / __> W / __> !
      <<<<0, 4>>, <<0, 4>>, <<0, 6>>>>,             \* > H / > W / : key
      <<<<0, 6>>, <<0, 6>>, <<2, 4>>, <<0, 12>>>>,  \* : A / : a / __> H / b: H
      <<<<0, 13>>, <<2, 4>>, <<0, 12>>>>,           \* a: / __> H / b: H
      <<<<0, 13>>, <<1, 12>>, <<1, 11>>, <<0, 12>>>>, \* a: / _b: / _a: / b:
      <<<<0, 13>>, <<2, 12>>, <<1, 11>>>>,          \* a: / __b: x / _a: x
      <<<<0, 2>>, <<1, 11>>, <<2, 12>>>>,           \* - / _a: x / __b: x
      <<<<0, 13>>, <<1, 12>>, <<2, 11>>>>,          \* a: / _b: x / __a: x
      <<<<0, 2>>, <<1, 4>>, <<2, 1>>>>,             \* - / _> x / __- x
      <<<<0, 2>>, <<2, 11>>, <<1, 12>>>>,           \* - / __a: x / _b: x
      <<<<0, 2>>, <<1, 2>>, <<2, 1>>, <<0, 1>>>>,   \* - / _- / __- x / - x
      <<<<0, 13>>, <<1, 13>>, <<2, 7>>, <<1, 5>>, <<0, 11>>>>,
      <<<<0, 5>>, <<0, 6>>, <<0, 5>>, <<1, 9>>>>,   \* : / : a / : / _{a:x}
      <<<<0, 11>>, <<0, 12>>, <<0, 11>>>>,          \* a: x / b: x / a: x
      <<<<0, 14>>>>,                                \* {a:x,a:1}
      <<<<0, 11>>, <<0, 12>>, <<0, 13>>, <<1, 14>>>>, \* a: x / b: x / a: / _{a:x,a:4}
      <<<<0, 1>>, <<0, 1>>, <<1, 0>>>>,
      <<<<0, 3>>, <<0, 4>>, <<0, 3>>, <<1, 4>>>> }

\* Documents of one more line that start at indent 0 and use one variant of
\* each kind of line, so that every dedent between two open levels occurs.
IndentVariants == {1, 2, 4, 11, 13}
IndentDocs ==
    { <<<<0, v>>>> \o c : v \in IndentVariants,
                          c \in [1..MaxLines -> (0..MaxIndent) \X IndentVariants] }

DocChoices ==
    UNION {[1..n -> LineChoices] : n \in 0..MaxLines} \cup Scenarios \cup IndentDocs

(***************************************************************************)
(* Spec: Parse is called once on a document.                               *)
(***************************************************************************)
NoCall == [initial |-> 0, text |-> <<>>]

Init ==
    /\ \E c \in DocChoices : doc = DocOf(c)
    /\ parser = newParser
    /\ pc = "ready"
    /\ result = Nil
    /\ err = NilError
    /\ call = NoCall
    /\ ip = newInlineParser
    /\ sc = NoScanner
    /\ opts = <<>>

\* Parse(r) without options: p := newParser(); return p.Parse(r)
Parse ==
    /\ pc = "ready"
    /\ With(ParserParse(parser, doc),
            LAMBDA r : /\ parser' = r.p
                       /\ result' = r.result
                       /\ err' = r.err)
    /\ pc' = "done"
    /\ UNCHANGED <<doc, call, ip, sc, opts>>

Next == Parse

Spec == Init /\ [][Next]_vars

(***************************************************************************)
(* SpecInline: inlineItemParser.parse is called directly on a text, and    *)
(* runs one iteration of its loop per step.  A text is the opening bracket *)
(* of its initial state followed by up to MaxInlineLen characters; an      *)
(* ordinary character is the letter of its position, so that every         *)
(* fragment shows where it was cut from.                                   *)
(***************************************************************************)
Letter(i) == <<"a", "b", "c", "d", "e", "f", "g", "h", "i", "j">>[i]
Ordinary == "A"
Alphabet == {Ordinary, " ", ",", ":", "[", "]", "{", "}"}

Opening(initial) == IF initial = _S1 THEN "{" ELSE "["

TextOf(initial, tail) ==
    <<Opening(initial)>> \o
    [i \in 1..Len(tail) |-> IF tail[i] = Ordinary THEN Letter(i) ELSE tail[i]]

\* texts of TestInlineParseItemsTable, of TestTableParse and of the format's
\* description of empty items
InlineExamples ==
    { [initial |-> _S2, text |-> <<>>],
      [initial |-> _S1, text |-> <<>>],
      [initial |-> _S2, text |-> <<"[", "[", " ", "]", "]">>],
      [initial |-> _S1, text |-> <<"{", "a", ":", " ", "[", ",", "]", "}">>],
      [initial |-> _S1, text |-> <<"{", "a", ":", " ", "[", "x", "]", "}">>],
      [initial |-> _S1, text |-> <<"{", "a", ":", "[", "x", ",", "y", "]", " ", "}">>],
      [initial |-> _S1, text |-> <<"{", "a", ":", " ", "{", "b", ":", " ", "x", "}", " ", "}">>],
      [initial |-> _S1, text |-> <<"{", "a", ":", " ", "x", ",", " ", "}">>],
      [initial |-> _S1, text |-> <<"{", "a", ":", "x", ",", "a", ":", "y", "}">>],
      [initial |-> _S2, text |-> <<"[", "[", "a", "]", " ", "b", "]">>],
      [initial |-> _S2, text |-> <<"[", "a", "\n", "]">>],
      [initial |-> _S2, text |-> <<"[", "a", "\t", ",", "\t", "b", "]", " ", "x">>],
      [initial |-> _S1, text |->
          <<"{", "a", ":", " ", "[", "1", ",", " ", "2", "]", ",", " ",
            "b", ":", " ", "{", "c", ":", " ", "3", "}", "}">>],
      [initial |-> _S1, text |->
          <<"{", " ", "a", " ", ":", " ", "{", " ", "A", " ", ":", " ", "0", " ",
            "}", " ", ",", " ", "b", " ", ":", " ", "{", " ", "B", " ", ":", " ",
            "1", " ", "}", " ", "}", " ", " ", " ">>],
      [initial |-> _S2, text |->
          <<"[", "[", "1", "1", ",", " ", "1", "2", "]", ",", " ",
            "[", "2", "1", ",", " ", "2", "2", "]", "]">>] }

InlineCalls ==
    { [initial |-> i, text |-> TextOf(i, tail)] :
        i \in {_S1, _S2},
        tail \in UNION {[1..n -> Alphabet] : n \in 0..MaxInlineLen} }
    \cup InlineExamples

InitInline ==
    /\ doc = <<>>
    /\ parser = newParser
    /\ pc = "ready"
    /\ result = Nil
    /\ err = NilError
    /\ call \in InlineCalls
    /\ ip = newInlineParser
    /\ sc = NoScanner
    /\ opts = <<>>

\* p.parse(initial, input) is entered: the code before the loop
InlineCall ==
    /\ ip.pc = "idle"
    /\ ip' = inlineBegin(ip, call.initial, call.text)
    /\ UNCHANGED <<doc, parser, pc, result, err, call, sc, opts>>

\* one iteration of the loop
InlineLoop ==
    /\ ip.pc = "loop"
    /\ ip' = inlineLoopBody(ip)
    /\ UNCHANGED <<doc, parser, pc, result, err, call, sc, opts>>

\* the code after the loop
InlineReturn ==
    /\ ip.pc = "after"
    /\ ip' = inlineAfterLoop(ip)
    /\ UNCHANGED <<doc, parser, pc, result, err, call, sc, opts>>

NextInline == InlineCall \/ InlineLoop \/ InlineReturn

SpecInline == InitInline /\ [][NextInline]_vars

\* the calls with a text of at most MaxFairLen characters after the opening
\* bracket, and the examples
InitInlineFair ==
    /\ InitInline
    /\ Len(call.text) <= MaxFairLen + 1 \/ call \in InlineExamples

\* parse is straight-line code: a step that can be taken is taken
SpecInlineFair == InitInlineFair /\ [][NextInline]_vars /\ WF_vars(NextInline)


(***************************************************************************)
(* Parse with TopLevel options.  The documents are those of one line and   *)
(* the scenarios; the option strings are the two modes, "dict." with       *)
(* several suffixes, and strings that are no mode.                         *)
(***************************************************************************)
TopLevelStrings ==
    { <<"l", "i", "s", "t">>,
      <<"d", "i", "c", "t">>,
      <<"d", "i", "c", "t", ".">>,
      <<"d", "i", "c", "t", ".", "c", "o", "n", "f", "i", "g">>,
      <<"d", "i", "c", "t", ".", "l", "i", "s", "t">>,
      <<"d", "i", "c", "t", ".", "d", "i", "c", "t">>,
      <<"d", "i", "c", "t", ".", "d", "i", "c", "t", ".", "a">>,
      <<"d", "i", "c", "t", "-", "c", "o", "n", "f", "i", "g">>,
      <<>> }

TopLevelDocs == {c \in DocChoices : Len(c) <= 1} \cup Scenarios

InitTopLevel ==
    /\ \/ \E c \in TopLevelDocs : doc = DocOf(c)
       \/ doc = NilReader
    /\ parser = newParser
    /\ pc = "ready"
    /\ result = Nil
    /\ err = NilError
    /\ call = NoCall
    /\ ip = newInlineParser
    /\ sc = NoScanner
    /\ opts = <<>>

\* Parse(r, TopLevel(top), ...) with up to MaxOpts options
ParseOptions ==
    /\ pc = "ready"
    /\ \E n \in 0..MaxOpts : \E os \in [1..n -> TopLevelStrings] :
           /\ opts' = os
           /\ With(ParseWithOptions(parser, doc, os),
                   LAMBDA r : /\ parser' = r.p
                              /\ result' = r.result
                              /\ err' = r.err)
    /\ pc' = "done"
    /\ UNCHANGED <<doc, call, ip, sc>>

NextTopLevel == ParseOptions

SpecTopLevel == InitTopLevel /\ [][NextTopLevel]_vars


(***************************************************************************)
(* The scanner on a text.  A text is a line of up to MaxLineLen            *)
(* characters, after nothing, a comment line or a blank and a comment      *)
(* line, and before nothing or a list item; or one of the texts of the     *)
(* tests.  NextToken is called up to MaxCalls times on it, and Parse is    *)
(* called on a reader of the same text.                                    *)
(***************************************************************************)
ScanAlphabet == {" ", "\t", "-", ">", ":", "[", "]", "a"}

ScanLines == UNION {[1..n -> ScanAlphabet] : n \in 0..MaxLineLen}

ScanPrefixes == {<<>>, <<<<"#", "c">>>>, <<<<>>, <<" ", "#">>>>, <<<<"-", " ", "b">>>>}

ScanSuffixes ==
    {<<>>, <<<<"-", " ", "b">>>>, <<<<"#">>>>, <<<<"\t">>, <<"#">>, <<"-", " ", "b">>>>}

\* texts of TestScannerTopLevelIndent, TestScannerListItemIllegal,
\* TestScannerInlineError, TestScannerInlineDictKeyValue, TestTableParse
ScanExamples ==
    { << <<"#", " ", "c">>, <<" ", " ", " ", "d", ":", " ", "f">> >>,
      << <<"#", " ", "c">>, <<"-", "d", "e", "b", "u", "g">> >>,
      << <<"[", " ", "h", ",", " ", "w", " ", "}">> >>,
      << <<"H", "i", " ", " ", ":", " ", "W", "!">> >>,
      << <<"#", " ", "c">>, <<"-", ":", ":", " ", "x">> >>,
      << <<"-">>, <<" ", " ", "\t", "-", " ", "x">> >>,
      << <<"a", ":">>, <<" ", " ", "b", ":", " ", "x">> >> }

\* string blocks with a line whose content begins with "#"
StringBlockExamples ==
    { << <<">", " ", "a">>, <<">", " ", "#", " ", "c">>, <<">", " ", "b">> >>,
      << <<">", " ", "#", " ", "c">>, <<"#", " ", "d">>, <<">", " ", "e">> >>,
      << <<">", " ", "#">> >>,
      << <<">", " ", " ", "#">> >> }

ScanInputs ==
    {pre \o <<l>> \o post :
        pre \in ScanPrefixes, l \in ScanLines, post \in ScanSuffixes}
    \cup ScanExamples \cup StringBlockExamples

\* the tokens of up to k calls of NextToken, and how the last call halted
RECURSIVE scanAll(_, _)
scanAll(s, k) ==
    IF k = 0 THEN [tokens |-> <<>>, halt |-> ""]
    ELSE With(scannerNextToken(s),
              LAMBDA r :
                 IF r.halt # "" THEN [tokens |-> <<>>, halt |-> r.halt]
                 ELSE With(scanAll(r.sc, k - 1),
                           LAMBDA rest : [tokens |-> <<r.token>> \o rest.tokens,
                                          halt |-> rest.halt]))

InitScan ==
    /\ doc = <<>>
    /\ parser = newParser
    /\ pc = "scan"
    /\ result = Nil
    /\ err = NilError
    /\ call = NoCall
    /\ ip = newInlineParser
    /\ \E input \in ScanInputs :
           sc = [s |-> newScanner(input), tokens |-> <<>>, halt |-> ""]
    /\ opts = <<>>

\* one call of sc.NextToken()
ScanNextToken ==
    /\ pc = "scan"
    /\ sc.halt = ""
    /\ Len(sc.tokens) < MaxCalls
    /\ With(scannerNextToken(sc.s),
            LAMBDA r :
               sc' = [s |-> r.sc,
                      tokens |-> IF r.halt = "" THEN Append(sc.tokens, r.token)
                                 ELSE sc.tokens,
                      halt |-> r.halt])
    /\ UNCHANGED <<doc, parser, pc, result, err, call, ip, opts>>

\* Parse(r) on a reader of the text.  doc becomes the tokens its scanner
\* yields.  pc becomes "hang" or "panic" if a call of NextToken that the
\* parser makes does not return, and "beyond" if the parser makes more than
\* MaxCalls calls.
ScanParse ==
    /\ pc = "scan"
    /\ Len(sc.tokens) = 0
    /\ With(scanAll(newScanner(sc.s.Buf.Input), MaxCalls),
            LAMBDA stream :
               /\ doc' = stream.tokens
               /\ With(ParserParse(parser, stream.tokens),
                       LAMBDA r :
                          /\ parser' = r.p
                          /\ IF r.p.n <= Len(stream.tokens)
                             THEN /\ pc' = "done"
                                  /\ result' = r.result
                                  /\ err' = r.err
                             ELSE /\ pc' = IF stream.halt # "" THEN stream.halt
                                           ELSE "beyond"
                                  /\ result' = Nil
                                  /\ err' = NilError))
    /\ UNCHANGED <<call, ip, sc, opts>>

NextScan == ScanNextToken \/ ScanParse

SpecScan == InitScan /\ [][NextScan]_vars


(***************************************************************************)
(* The line source on a raw text.  The reader hands its bytes to the       *)
(* bufio.Scanner in pieces of any size; sc.start counts the bytes the      *)
(* split function has consumed and sc.lines lists the lines it returned.   *)
(***************************************************************************)
RawAlphabet == {"a", "\r", "\n"}

RawExample ==
    <<"H", "e", "l", "l", "o", "\n", "W", "o", "r", "l", "d", "\r", "?", "!", "\n">>

RawTexts == UNION {[1..n -> RawAlphabet] : n \in 0..MaxTextLen} \cup {RawExample}

InitLines ==
    /\ doc \in RawTexts
    /\ parser = newParser
    /\ pc = "lines"
    /\ result = Nil
    /\ err = NilError
    /\ call = NoCall
    /\ ip = newInlineParser
    /\ sc = [start |-> 0, lines |-> <<>>]
    /\ opts = <<>>

\* buf.Input.Scan() returns true: split found a line in the k bytes read
ScanLine ==
    /\ pc = "lines"
    /\ \E k \in 0..(Len(doc) - sc.start), atEOF \in BOOLEAN :
          /\ atEOF => k = Len(doc) - sc.start
          /\ k > 0 \/ atEOF
          /\ With(split(SubSeq(doc, sc.start + 1, sc.start + k), atEOF),
                  LAMBDA r :
                     /\ r.ok
                     /\ sc' = [start |-> sc.start + r.advance,
                               lines |-> Append(sc.lines, r.token)])
    /\ UNCHANGED <<doc, parser, pc, result, err, call, ip, opts>>

\* buf.Input.Scan() returns false: the reader is at its end, no line is left
ScanEnd ==
    /\ pc = "lines"
    /\ ~split(SubSeq(doc, sc.start + 1, Len(doc)), TRUE).ok
    /\ pc' = "eof"
    /\ UNCHANGED <<doc, parser, result, err, call, ip, sc, opts>>

NextLines == ScanLine \/ ScanEnd

SpecLines == InitLines /\ [][NextLines]_vars

(***************************************************************************)
(* IsIgnoredLine on one line of up to MaxLineLen + 1 characters.           *)
(***************************************************************************)
IgnoredAlphabet == {" ", "\t", "\f", "#", "a"}

IgnoredLines == UNION {[1..n -> IgnoredAlphabet] : n \in 0..(MaxLineLen + 1)}

InitIgnored ==
    /\ doc = <<>>
    /\ parser = newParser
    /\ pc = "line"
    /\ result = Nil
    /\ err = NilError
    /\ call = NoCall
    /\ ip = newInlineParser
    /\ \E l \in IgnoredLines : sc = [Text |-> l, ignored |-> FALSE]
    /\ opts = <<>>

\* buf.IsIgnoredLine() with buf.Text the line
IsIgnoredLineCall ==
    /\ pc = "line"
    /\ sc' = [sc EXCEPT !.ignored = IsIgnoredLine(sc.Text)]
    /\ pc' = "tested"
    /\ UNCHANGED <<doc, parser, result, err, call, ip, opts>>

NextIgnored == IsIgnoredLineCall

SpecIgnored == InitIgnored /\ [][NextIgnored]_vars

(***************************************************************************)
(* Two goroutines call IsIgnoredLine for the first time, each on its own   *)
(* line.  blankPattern and commentPattern are package variables that the   *)
(* function sets when it finds blankPattern nil; nothing synchronises the  *)
(* goroutines.  sc holds the two variables and who has written them;       *)
(* call[g] is goroutine g: its position in the function, its line, and     *)
(* what the function returned.  A read of a variable that another          *)
(* goroutine has written yields the value written or the nil from before.  *)
(***************************************************************************)
Goroutines == {1, 2}

RaceLines == {<<>>, <<"#">>, <<"a">>, <<" ", "#">>, <<" ", "a">>}

InitRace ==
    /\ doc = <<>>
    /\ parser = newParser
    /\ pc = "race"
    /\ result = Nil
    /\ err = NilError
    /\ \E ls \in [Goroutines -> RaceLines] :
          call = [g \in Goroutines |->
                     [pc |-> "test", Text |-> ls[g], ignored |-> "none"]]
    /\ ip = newInlineParser
    /\ sc = [blankPattern |-> {}, commentPattern |-> {}]
    /\ opts = <<>>

\* what goroutine g can read from a variable that the goroutines in
\* writers have set: TRUE for the pattern, FALSE for nil
Reads(g, writers) ==
    IF writers = {} THEN {FALSE}
    ELSE IF g \in writers THEN {TRUE}
    ELSE {TRUE, FALSE}

\* if blankPattern == nil
RaceTest(g) ==
    /\ call[g].pc = "test"
    /\ \E seen \in Reads(g, sc.blankPattern) :
          call' = [call EXCEPT ![g].pc = IF seen THEN "matchBlank" ELSE "setBlank"]
    /\ UNCHANGED <<doc, parser, pc, result, err, ip, sc, opts>>

\* blankPattern = regexp.MustCompile(`^\s*$`)
RaceSetBlank(g) ==
    /\ call[g].pc = "setBlank"
    /\ sc' = [sc EXCEPT !.blankPattern = @ \cup {g}]
    /\ call' = [call EXCEPT ![g].pc = "setComment"]
    /\ UNCHANGED <<doc, parser, pc, result, err, ip, opts>>

\* commentPattern = regexp.MustCompile(`^\s*#`)
RaceSetComment(g) ==
    /\ call[g].pc = "setComment"
    /\ sc' = [sc EXCEPT !.commentPattern = @ \cup {g}]
    /\ call' = [call EXCEPT ![g].pc = "matchBlank"]
    /\ UNCHANGED <<doc, parser, pc, result, err, ip, opts>>

\* blankPattern.MatchString(buf.Text), on the pattern the test has seen
RaceMatchBlank(g) ==
    /\ call[g].pc = "matchBlank"
    /\ call' = [call EXCEPT
                  ![g].pc = IF IsIgnoredLineBlankOnly(call[g].Text)
                            THEN "returned" ELSE "matchComment",
                  ![g].ignored = IF IsIgnoredLineBlankOnly(call[g].Text)
                                 THEN "true" ELSE @]
    /\ UNCHANGED <<doc, parser, pc, result, err, ip, sc, opts>>

\* commentPattern.MatchString(buf.Text); calling it on nil panics
RaceMatchComment(g) ==
    /\ call[g].pc = "matchComment"
    /\ \E seen \in Reads(g, sc.commentPattern) :
          call' = [call EXCEPT
                     ![g].pc = IF seen THEN "returned" ELSE "panicked",
                     ![g].ignored = IF ~seen THEN "panic"
                                    ELSE IF IsIgnoredLine(call[g].Text)
                                    THEN "true" ELSE "false"]
    /\ UNCHANGED <<doc, parser, pc, result, err, ip, sc, opts>>

NextRace ==
    \E g \in Goroutines :
        \/ RaceTest(g)
        \/ RaceSetBlank(g)
        \/ RaceSetComment(g)
        \/ RaceMatchBlank(g)
        \/ RaceMatchComment(g)

SpecRace == InitRace /\ [][NextRace]_vars

(***************************************************************************)
(* The encoder (package ntenc).  Encode writes to a buffer, so no write    *)
(* fails; encode is modelled by the bytes it writes.  A tree is a value of *)
(* strings, []interface{} and map[string]interface{}.  The order in which  *)
(* reflect's MapKeys lists the keys of a map is not specified: order, a    *)
(* sequence of all keys, stands for it.                                    *)
(***************************************************************************)
indentSize == 2

\* itemPattern[what]: the characters that forbid the inline form
itemPattern(what) ==
    CASE what = "asKey" -> {":", "\n"}
      [] what = "asString" -> {"\n"}
      [] what = "asList" -> {"[", "]", ",", "\n"}
      [] what = "asDict" -> {"{", "}", ",", ":", "\n"}

\* values that are no string, slice or string-keyed map: an int and a
\* func (s is what %v prints), a struct, and a map with int keys
Number(s) == [t |-> "int", s |-> s, v |-> <<>>, m |-> <<>>]
Func(s) == [t |-> "func", s |-> s, v |-> <<>>, m |-> <<>>]
Struct == [t |-> "struct", s |-> <<>>, v |-> <<>>, m |-> <<>>]
IntMap(m) == [t |-> "intmap", s |-> <<>>, v |-> <<>>, m |-> m]

\* fmt.Sprintf("%v", item) of a value that is no container
Sprintf(item) == IF item.t = "nil" THEN <<"<", "n", "i", "l", ">">> ELSE item.s

\* isEncodable: reflect's kind of nil is Invalid
isEncodable(item) == item.t \notin {"nil", "func", "struct"}

\* isInlineable(what, item): its boolean; the bytes are Sprintf(item)
isInlineable(what, item) ==
    IF item.t \in {"list", "dict", "intmap", "struct"} THEN FALSE
    ELSE IF item.t = "string"
    THEN /\ item.s # <<>>
         /\ \A i \in 1..Len(item.s) : item.s[i] \notin itemPattern(what)
    ELSE \A i \in 1..Len(Sprintf(item)) : Sprintf(item)[i] \notin itemPattern(what)

\* encoder.indent
encIndent(indent) == [i \in 1..(indent * indentSize) |-> " "]

\* strings.Split(s, "\n")
RECURSIVE SplitLines(_)
SplitLines(s) ==
    IF IndexByte(s, "\n") = 0 THEN <<s>>
    ELSE <<SubSeq(s, 1, IndexByte(s, "\n") - 1)>>
             \o SplitLines(SubSeq(s, IndexByte(s, "\n") + 1, Len(s)))

\* the characters of the model in the order of their codes
CharOrder ==
    <<"\t", "\n", "\f", "\r", " ", "#", ",", "-", ":", ">", "[", "]",
      "a", "b", "c", "{", "}">>

CharCode(c) == CHOOSE i \in 1..Len(CharOrder) : CharOrder[i] = c

\* a < b for strings
RECURSIVE Less(_, _)
Less(a, b) ==
    IF a = <<>> THEN b # <<>>
    ELSE IF b = <<>> THEN FALSE
    ELSE IF a[1] = b[1] THEN Less(Tail(a), Tail(b))
    ELSE CharCode(a[1]) < CharCode(b[1])

\* v.MapKeys(): the keys of the map in the order the runtime chose
MapKeys(tree, order) == SelectSeq(order, LAMBDA k : k \in DOMAIN tree.m)

\* the keys as MapKeys listed them
sortSliceNot(keys) == keys

\* sort.Slice(keys, less): the keys in ascending order
RECURSIVE sortSlice(_)
sortSlice(keys) ==
    IF keys = <<>> THEN <<>>
    ELSE LET least == CHOOSE i \in 1..Len(keys) :
                          \A j \in 1..Len(keys) : j = i \/ Less(keys[i], keys[j])
         IN  <<keys[least]>>
                 \o sortSlice(SubSeq(keys, 1, least - 1)
                                  \o SubSeq(keys, least + 1, Len(keys)))

RECURSIVE encode(_, _, _)
RECURSIVE encodeItems(_, _, _)
RECURSIVE encodeEntries(_, _, _, _)

\* the lines "> s" of the pieces S of a string
RECURSIVE encodeStringLines(_, _)
encodeStringLines(indent, S) ==
    IF S = <<>> THEN <<>>
    ELSE encIndent(indent) \o <<">", " ">> \o Head(S) \o <<"\n">>
             \o encodeStringLines(indent, Tail(S))

\* the lines of a key that is not inlineable
RECURSIVE encodeKeyLines(_, _)
encodeKeyLines(indent, S) ==
    IF S = <<>> THEN <<>>
    ELSE encIndent(indent)
             \o (IF Head(S) = <<>> THEN <<":">> ELSE <<":", " ">> \o Head(S))
             \o <<"\n">> \o encodeKeyLines(indent, Tail(S))

encodeIfNotEmpty(item, indent, order) ==
    IF item.t = "string" /\ item.s = <<>> THEN <<>>
    ELSE encode(indent + 1, item, order)

\* the loop over the items of a slice
encodeItems(indent, items, order) ==
    IF items = <<>> THEN <<>>
    ELSE encIndent(indent) \o <<"-">>
             \o (IF isInlineable("asList", Head(items))
                 THEN <<" ">> \o Sprintf(Head(items)) \o <<"\n">>
                 ELSE <<"\n">> \o encode(indent + 1, Head(items), order))
             \o encodeItems(indent, Tail(items), order)

\* the loop over the sorted keys of a map
encodeEntries(indent, tree, keys, order) ==
    IF keys = <<>> THEN <<>>
    ELSE (IF isInlineable("asKey", String(Head(keys)))
          THEN encIndent(indent) \o Head(keys) \o <<":">>
                   \o (IF isInlineable("asString", tree.m[Head(keys)])
                       THEN <<" ">> \o Sprintf(tree.m[Head(keys)]) \o <<"\n">>
                       ELSE <<"\n">>
                                \o encodeIfNotEmpty(tree.m[Head(keys)], indent, order))
          ELSE encodeKeyLines(indent, SplitLines(Head(keys)))
                   \o encodeIfNotEmpty(tree.m[Head(keys)], indent, order))
         \o encodeEntries(indent, tree, Tail(keys), order)

\* encoder.encodeReflected, case reflect.Map
encodeReflected(indent, tree, order) ==
    IF MapKeys(tree, order) = <<>> THEN <<"{", "}", "\n">>
    ELSE encodeEntries(indent, tree, sortSlice(MapKeys(tree, order)), order)

\* encoder.encode: the bytes written
encode(indent, tree, order) ==
    CASE tree.t = "string" ->
             IF isInlineable("asString", tree)
             THEN encIndent(indent) \o <<">", " ">> \o tree.s \o <<"\n">>
             ELSE encodeStringLines(indent, SplitLines(tree.s))
      [] tree.t = "list" -> encodeItems(indent, tree.v, order)
      [] tree.t = "dict" -> encodeReflected(indent, tree, order)
      [] tree.t = "intmap" /\ DOMAIN tree.m = {} -> <<"{", "}", "\n">>
      [] OTHER -> <<>>

\* the error encode returns: once set it is handed on to the end
RECURSIVE encodeErr(_)
encodeErr(tree) ==
    LET schema == MakeNestedTextError(ErrCodeSchema, "unable to encode type")
        below(items) ==
            IF \E i \in DOMAIN items : encodeErr(items[i]) # NilError
            THEN schema ELSE NilError
    IN  CASE ~isEncodable(tree) -> schema
          [] tree.t = "string" -> NilError
          [] tree.t = "list" ->
                 below([i \in {j \in 1..Len(tree.v) :
                                  ~isInlineable("asList", tree.v[j])} |-> tree.v[i]])
          [] tree.t = "dict" ->
                 below([k \in {x \in DOMAIN tree.m :
                                  /\ ~isInlineable("asString", tree.m[x])
                                  /\ tree.m[x] # String(<<>>)} |-> tree.m[k]])
          [] tree.t = "intmap" ->
                 IF DOMAIN tree.m = {} THEN NilError
                 ELSE MakeNestedTextError(ErrCodeSchema, "map key is not a string")
          [] OTHER -> schema

\* Encode(tree, w) with the default options: the bytes
Encode(tree, order) == encode(0, tree, order)

\* Encode(tree, w) with the default options: the error
EncodeErr(tree) == encodeErr(tree)

\* the lines a line buffer reads from the bytes data
RECURSIVE readAll(_)
readAll(data) ==
    IF ~split(data, TRUE).ok THEN <<>>
    ELSE <<split(data, TRUE).token>>
             \o readAll(SubSeq(data, split(data, TRUE).advance + 1, Len(data)))

(***************************************************************************)
(* Encode is called on a tree, and Parse on the bytes it wrote.  The trees *)
(* are the lists of up to MaxWidth elements and the dicts over EncKeys, of *)
(* strings, lists and dicts.                                               *)
(***************************************************************************)
EncKeys == {<<"a">>, <<"a", "b">>, <<"b">>}

KeyOrders ==
    {o \in [1..Cardinality(EncKeys) -> EncKeys] :
        \A i, j \in 1..Cardinality(EncKeys) : o[i] = o[j] => i = j}

EncElements ==
    {String(<<>>), String(<<"a">>), List(<<>>), List(<<String(<<"a">>)>>),
     Dict(<<>>),
     Dict([k \in {<<"a">>} |-> String(<<"b">>)]),
     Dict([k \in {<<"a">>, <<"b">>} |->
              IF k = <<"a">> THEN String(<<"a">>) ELSE String(<<>>)])}

EncTrees ==
    {String(<<>>), String(<<"a">>)}
    \cup {List(v) : v \in UNION {[1..n -> EncElements] : n \in 0..MaxWidth}}
    \cup {Dict(m) : m \in UNION {[K -> EncElements] : K \in SUBSET EncKeys}}

\* values that Parse does not produce
EncForeign ==
    {Number(<<"7">>), Nil, Struct, Func(<<"0", "x", "c">>),
     IntMap(<<>>), IntMap([k \in {<<"1">>} |-> String(<<"a">>)])}

\* trees with such a value at depth 0, 1 or 2
EncForeignTrees ==
    EncForeign
    \cup {List(<<x>>) : x \in EncForeign}
    \cup {List(<<String(<<"a">>), x>>) : x \in EncForeign}
    \cup {Dict([k \in {<<"a">>} |-> x]) : x \in EncForeign}
    \cup {List(<<List(<<x>>)>>) : x \in EncForeign}
    \cup {Dict([k \in {<<"a">>} |-> List(<<x>>)]) : x \in EncForeign}
    \cup {List(<<Dict([k \in {<<"b">>} |-> x])>>) : x \in EncForeign}

InitEncode ==
    /\ doc = <<>>
    /\ parser = newParser
    /\ pc = "encode"
    /\ result = Nil
    /\ err = NilError
    /\ \E tree \in EncTrees \cup EncForeignTrees, order \in KeyOrders :
          call = [tree |-> tree, order |-> order]
    /\ ip = newInlineParser
    /\ sc = NoScanner
    /\ opts = <<>>

\* ntenc.Encode(tree, w): doc becomes the bytes written
EncodeCall ==
    /\ pc = "encode"
    /\ doc' = Encode(call.tree, call.order)
    /\ err' = EncodeErr(call.tree)
    /\ pc' = "encoded"
    /\ UNCHANGED <<parser, result, call, ip, sc, opts>>

\* nestext.Parse on a reader of the bytes; pc becomes "hang", "panic" or
\* "beyond" as in ScanParse
ParseEncoded ==
    /\ pc = "encoded"
    /\ With(scanAll(newScanner(readAll(doc)), MaxCalls),
            LAMBDA stream :
               With(ParserParse(parser, stream.tokens),
                    LAMBDA r :
                       /\ parser' = r.p
                       /\ IF r.p.n <= Len(stream.tokens)
                          THEN /\ pc' = "parsed"
                               /\ result' = r.result
                               /\ err' = r.err
                          ELSE /\ pc' = IF stream.halt # "" THEN stream.halt
                                        ELSE "beyond"
                               /\ result' = Nil
                               /\ err' = NilError))
    /\ UNCHANGED <<doc, call, ip, sc, opts>>

NextEncode == EncodeCall \/ ParseEncoded

SpecEncode == InitEncode /\ [][NextEncode]_vars

(***************************************************************************)
(* The list-item loop of parseListItems as src/parse.go has it, one        *)
(* iteration at a time.  doc is the document, parser.pos counts the        *)
(* NextToken calls made so far, parser.frames holds the indent of every    *)
(* list whose loop is running, the innermost last, and parser.iter counts  *)
(* the iterations.  The loop of this revision has no break: an item that   *)
(* parseListItem or parseListItemMultiline declines is tried again.        *)
(***************************************************************************)
MaxIter == 4        \* iterations of the list-item loop that are followed

ListLineChoices == ((0..MaxIndent) \X {1, 2, 4}) \cup {<<0, 0>>}

ListDocs ==
    { <<<<0, v>>>> \o c : v \in {1, 2},
                          c \in UNION {[1..n -> ListLineChoices] : n \in 0..MaxLines} }

\* parseMultiString(indent) at token n: the number of the token it stops at
RECURSIVE loopParseMultiString(_, _)
loopParseMultiString(n, indent) ==
    LET t == NextToken(doc, n + 1)
    IN  IF t.Error # NilError THEN n + 1
        ELSE IF t.TokenType # stringMultiline \/ t.Indent # indent THEN n + 1
        ELSE loopParseMultiString(n + 1, indent)

\* parseListItem(indent) at token n: the token it leaves current
loopParseListItem(n, indent) ==
    IF NextToken(doc, n).Indent # indent THEN n ELSE n + 1

\* parseListItemMultiline(indent) at token n: the token it leaves current
\* and the indent of the list that parseAny starts, if it starts one
loopParseListItemMultiline(n, indent) ==
    LET t == NextToken(doc, n + 1)
    IN  IF NextToken(doc, n).Indent # indent THEN [pos |-> n, list |-> -1]
        ELSE IF t.Error # NilError THEN [pos |-> n + 1, list |-> -1]
        ELSE IF t.Indent <= indent THEN [pos |-> n + 1, list |-> -1]
        ELSE IF t.TokenType = stringMultiline
             THEN [pos |-> loopParseMultiString(n + 1, t.Indent), list |-> -1]
        ELSE [pos |-> n + 1, list |-> t.Indent]

InitListLoop ==
    /\ \E c \in ListDocs : doc = DocOf(c)
    /\ parser = [pos |-> 2, frames |-> <<0>>, iter |-> 0]
    /\ pc = "items"
    /\ result = Nil
    /\ err = NilError
    /\ call = NoCall
    /\ ip = newInlineParser
    /\ sc = NoScanner
    /\ opts = <<>>

\* the indent of the list whose loop is running
ListIndent == parser.frames[Len(parser.frames)]

\* the loop condition is false: parseListItems returns, and with it the
\* parseList and the parseListItemMultiline of the list around it
ListItemsLeave ==
    /\ pc = "items"
    /\ NextToken(doc, parser.pos).TokenType \notin {listItem, listItemMultiline}
    /\ parser' = [parser EXCEPT !.frames = SubSeq(parser.frames, 1, Len(parser.frames) - 1)]
    /\ pc' = IF Len(parser.frames) = 1 THEN "returned" ELSE "items"
    /\ UNCHANGED <<doc, result, err, call, ip, sc, opts>>

\* one iteration of the loop on a list item
ListItemsIteration ==
    /\ pc = "items"
    /\ parser.iter < MaxIter
    /\ NextToken(doc, parser.pos).TokenType \in {listItem, listItemMultiline}
    /\ IF NextToken(doc, parser.pos).TokenType = listItem
       THEN parser' = [parser EXCEPT !.pos = loopParseListItem(parser.pos, ListIndent),
                                     !.iter = parser.iter + 1]
       ELSE With(loopParseListItemMultiline(parser.pos, ListIndent),
                 LAMBDA r : parser' =
                     [parser EXCEPT !.pos = r.pos,
                                    !.iter = parser.iter + 1,
                                    !.frames = IF r.list >= 0
                                               THEN Append(parser.frames, r.list)
                                               ELSE parser.frames])
    /\ pc' = pc
    /\ UNCHANGED <<doc, result, err, call, ip, sc, opts>>

NextListLoop == ListItemsIteration \/ ListItemsLeave

SpecListLoop == InitListLoop /\ [][NextListLoop]_vars

(***************************************************************************)
(* The line buffer by itself: after newLineBuffer, AdvanceLine and         *)
(* AdvanceCursor are called in any order.  sc.Buf is the buffer, sc.ret    *)
(* the error that the last call returned and sc.calls the number of        *)
(* AdvanceLine calls made.                                                 *)
(***************************************************************************)
BufLines == {<<>>, <<"#">>, <<"a">>, <<" ", "a">>, <<"a", "b">>}

BufInputs == UNION {[1..n -> BufLines] : n \in 0..MaxLines}

InitBuf ==
    /\ doc = <<>>
    /\ parser = newParser
    /\ pc = "buffer"
    /\ result = Nil
    /\ err = NilError
    /\ call = NoCall
    /\ ip = newInlineParser
    /\ \E input \in BufInputs :
           sc = [Buf |-> newLineBuffer(input), ret |-> NilError, calls |-> 0]
    /\ opts = <<>>

\* buf.AdvanceLine()
BufAdvanceLine ==
    /\ pc = "buffer"
    /\ sc.calls < MaxCalls
    /\ With(AdvanceLine(sc.Buf),
            LAMBDA r : sc' = [Buf |-> r.buf, ret |-> r.err, calls |-> sc.calls + 1])
    /\ UNCHANGED <<doc, parser, pc, result, err, call, ip, opts>>

\* buf.AdvanceCursor()
BufAdvanceCursor ==
    /\ pc = "buffer"
    /\ sc' = [sc EXCEPT !.Buf = AdvanceCursor(sc.Buf), !.ret = NilError]
    /\ UNCHANGED <<doc, parser, pc, result, err, call, ip, opts>>

NextBuf == BufAdvanceLine \/ BufAdvanceCursor

SpecBuf == InitBuf /\ [][NextBuf]_vars

(***************************************************************************)
(* The properties.  They are stated on the state after Parse returned:     *)
(* result and err are what it returned, parser.token is the current token, *)
(* and parser.calls is the history of the calls made on the way.           *)
(***************************************************************************)
TokenAt(k) == NextToken(doc, k)
CallIds == DOMAIN parser.calls
CallAt(i) == parser.calls[i]

IsFormatError(er, text) == er.Code = ErrCodeFormat /\ er.msg = text

UnusedContentMsg == "unused content following valid input"
PartialDedentMsg == "partial dedent"
InvalidIndentMsg ==
    "invalid indent: may only follow an item that does not already have a value"

\* the call parseAny(0) of parseDocument
IsTopLevelCall(i) == CallAt(i).fn = "parseAny" /\ CallAt(i).from = 2

\* C1: if Parse returns a non-nil error then the value it returns is nil,
\* whichever component reported the error.
C1_ErrorImpliesNilValue ==
    (pc = "done" /\ err # NilError) => result = Nil

\* C2: once parseAny(0) has built the top-level value, Parse succeeds only
\* if the current token is Eof; with any other current token it fails with
\* the Format error "unused content following valid input".
C2_UnusedContent ==
    pc = "done" =>
        \A i \in CallIds :
            (IsTopLevelCall(i) /\ CallAt(i).err = NilError) =>
                LET tok == TokenAt(CallAt(i).to)
                IN  /\ parser.token = tok
                    /\ (err = NilError) <=> (tok.TokenType = eof)
                    /\ tok.TokenType # eof => IsFormatError(err, UnusedContentMsg)

C2_Witness ==
    /\ pc = "done"
    /\ \E i \in CallIds :
           /\ IsTopLevelCall(i)
           /\ CallAt(i).err = NilError
           /\ CallAt(i).result # Nil
           /\ TokenAt(CallAt(i).to).TokenType = dictKeyMultiline
    /\ IsFormatError(err, UnusedContentMsg)

\* a call of parseListItem that found its ListItem token deeper than the list
DeeperListItem(i) ==
    /\ CallAt(i).fn = "parseListItem"
    /\ TokenAt(CallAt(i).from).TokenType = listItem
    /\ TokenAt(CallAt(i).from).Indent > CallAt(i).indent

\* a call of parseListItemMultiline that parsed a deeper value and then found
\* a ListItem token deeper than the list
DeeperListItemAfterValue(i) ==
    /\ CallAt(i).fn = "parseListItemMultiline"
    /\ CallAt(i).to > CallAt(i).from + 1
    /\ TokenAt(CallAt(i).to).TokenType = listItem
    /\ TokenAt(CallAt(i).to).Indent > CallAt(i).indent

\* C3: in parseList at indent i, a ListItem token whose indent is greater
\* than i and that does not directly follow a ListItemMultiline tag makes
\* Parse fail with the Format error "invalid indent".
C3_InvalidIndent ==
    pc = "done" =>
        \A i \in CallIds :
            (DeeperListItem(i) \/ DeeperListItemAfterValue(i)) =>
                /\ IsFormatError(CallAt(i).err, InvalidIndentMsg)
                /\ IsFormatError(err, InvalidIndentMsg)

\* "- Hello" followed by the deeper "  - World!"
C3_Witness ==
    /\ pc = "done"
    /\ Len(doc) = 2
    /\ doc[1].TokenType = listItem /\ doc[1].Indent = 0
    /\ doc[2].TokenType = listItem /\ doc[2].Indent > 0
    /\ \E i \in CallIds : DeeperListItem(i)
    /\ IsFormatError(err, InvalidIndentMsg)

\* a call of parseDict that consumed its pairs and found the current token
\* deeper than the dict
DanglingAfterDict(i) ==
    /\ CallAt(i).fn = "parseDict"
    /\ CallAt(i).result # Nil
    /\ TokenAt(CallAt(i).to).Indent > CallAt(i).indent

\* the call i was made while a list was being parsed
InsideList(i) ==
    \E j \in CallIds :
        /\ CallAt(j).fn = "parseList"
        /\ CallAt(j).from < CallAt(i).from
        /\ j > i

\* C4 as stated: after parseDict(indent) consumed its pairs, a current token
\* with an indent greater than indent makes Parse fail with the Format
\* error "partial dedent".
C4_PartialDedentAlways ==
    pc = "done" =>
        \A i \in CallIds :
            DanglingAfterDict(i) => IsFormatError(err, PartialDedentMsg)

\* C4, amended: in that case parseDict returns the Format error "partial
\* dedent" and Parse fails with a Format error, which is "partial dedent"
\* when the dict is not nested in a list and "invalid indent" when it is.
C4_PartialDedent ==
    pc = "done" =>
        \A i \in CallIds :
            DanglingAfterDict(i) =>
                /\ IsFormatError(CallAt(i).err, PartialDedentMsg)
                /\ IF InsideList(i)
                   THEN IsFormatError(err, InvalidIndentMsg)
                   ELSE IsFormatError(err, PartialDedentMsg)

C4_Witness ==
    /\ pc = "done"
    /\ \E i \in CallIds :
           /\ DanglingAfterDict(i)
           /\ ~InsideList(i)
           /\ CallAt(i).from > 2
           /\ IsFormatError(CallAt(i).err, PartialDedentMsg)
    /\ IsFormatError(err, PartialDedentMsg)


\* the text a multi-line tag carries; a tag without text carries ""
TextOfLine(tok) == IF Len(tok.Content) = 0 THEN <<>> ELSE tok.Content[1]

\* the texts of the tokens from..to-1, joined with "\n"
RECURSIVE JoinLines(_, _)
JoinLines(from, to) ==
    IF from >= to THEN <<>>
    ELSE IF from + 1 = to THEN TextOfLine(TokenAt(from))
    ELSE TextOfLine(TokenAt(from)) \o <<"\n">> \o JoinLines(from + 1, to)

\* the token k is a line of the run of type tags at indent ind
InRun(k, type, ind) ==
    /\ TokenAt(k).Error = NilError
    /\ TokenAt(k).TokenType = type
    /\ TokenAt(k).Indent = ind

\* the index of the first token after the maximal run that starts at from
RunEnd(from, type, ind) ==
    Min({k \in from..(Len(doc) + 2) : ~InRun(k, type, ind)})

\* the call of parseAny that started at token k
IsValueCallAt(j, k) == CallAt(j).fn = "parseAny" /\ CallAt(j).from = k

\* C5: parseMultiString(indent) returns the texts of the maximal run of
\* consecutive StringMultiline tokens at exactly that indent, joined with
\* "\n", and leaves the first token of another kind or indent current.
C5_MultiString ==
    pc = "done" =>
        \A i \in CallIds :
            CallAt(i).fn = "parseMultiString" =>
                LET c == CallAt(i)
                    end == RunEnd(c.from, stringMultiline, c.indent)
                IN  /\ InRun(c.from, stringMultiline, c.indent)
                    /\ c.to = end
                    /\ c.result = String(JoinLines(c.from, end))
                    /\ c.err = TokenAt(end).Error

\* a run of three lines, the second of them void, is followed by a
\* StringMultiline token at another indent
C5_Witness ==
    /\ pc = "done"
    /\ \E i \in CallIds :
           /\ CallAt(i).fn = "parseMultiString"
           /\ CallAt(i).to = CallAt(i).from + 3
           /\ TokenAt(CallAt(i).to).TokenType = stringMultiline
           /\ TokenAt(CallAt(i).to).Indent # CallAt(i).indent
           /\ CallAt(i).result = String(<<"\n">> \o LineText(2) \o <<"\n">>)

\* the n-th smallest element of a set of numbers
NthOf(S, n) == CHOOSE k \in S : Cardinality({j \in S : j < k}) = n - 1

\* the indent of the block a call parsed: that of its first token
BlockIndent(i) == TokenAt(CallAt(i).from).Indent

\* the tokens of the block of call i that stand at the block's indent
TokensOf(i) ==
    {k \in CallAt(i).from..(CallAt(i).to - 1) : TokenAt(k).Indent = BlockIndent(i)}

\* the value parsed from the deeper block that starts at token k is val
IsDeeperValue(k, val) ==
    \E j \in CallIds :
        IsValueCallAt(j, k) /\ CallAt(j).err = NilError /\ CallAt(j).result = val

\* the value of the item or key whose last tag is token k, if it is on
\* further lines, is val
IsBlockValue(k, ind, val) ==
    IF TokenAt(k + 1).Indent <= ind
    THEN val = String(<<>>)
    ELSE IsDeeperValue(k + 1, val)

\* C6: parseList returns a list with one value per list-item token at the
\* list's indent, in order: a ListItem gives its content verbatim as a
\* string; a ListItemMultiline gives "" if the next token's indent is not
\* greater than the list's, otherwise the value parsed from the deeper block.
C6_ListItems ==
    pc = "done" =>
        \A i \in CallIds :
            (CallAt(i).fn = "parseList" /\ CallAt(i).err = NilError) =>
                LET val == CallAt(i).result
                    items == TokensOf(i)
                IN  /\ val.t = "list"
                    /\ Len(val.v) = Cardinality(items)
                    /\ \A n \in 1..Len(val.v) :
                           LET k == NthOf(items, n)
                           IN  CASE TokenAt(k).TokenType = listItem ->
                                        val.v[n] = String(TokenAt(k).Content[1])
                                 [] TokenAt(k).TokenType = listItemMultiline ->
                                        IsBlockValue(k, BlockIndent(i), val.v[n])
                                 [] OTHER -> FALSE

\* "- x", "-" with a two-line string below it: the first item keeps its
\* bracketed text as a string, the second is the string of the deeper lines
C6_Witness ==
    /\ pc = "done"
    /\ err = NilError
    /\ Len(doc) = 4
    /\ doc[1].TokenType = listItem
    /\ doc[2].TokenType = listItemMultiline
    /\ result = List(<<String(LineText(1)),
                       String(LineText(3) \o <<"\n">> \o LineText(4))>>)


\* the calls that parsed a key-value pair of the dict of call i
PairsOf(i) ==
    {j \in CallIds :
        /\ CallAt(j).fn \in {"parseDictKeyValuePair", "parseDictKeyAnyValuePair",
                             "parseDictKeyValuePairWithMultilineKey"}
        /\ j < i
        /\ CallAt(j).from >= CallAt(i).from
        /\ CallAt(j).indent = BlockIndent(i)
        /\ CallAt(j).result # Nil
        /\ CallAt(j).err = NilError}

\* the dict of call i maps the key of its pair j to the value of that pair,
\* unless a later pair of the dict has the same key
HasEntryOf(i, j) ==
    LET m == CallAt(i).result.m
        key == CallAt(j).key.s
    IN  /\ key \in DOMAIN m
        /\ (\A l \in PairsOf(i) : l > j => CallAt(l).key.s # key)
               => m[key] = CallAt(j).result

\* C7: parseDict builds one entry per key token at the dict's indent: an
\* InlineDictKeyValue gives key and value from the same line, the value
\* always a plain string; an InlineDictKey gives "" if the next token's
\* indent is not greater than the dict's, otherwise the value parsed from
\* the deeper block.  (Of two tokens with the same key the later one's
\* value is the entry's.)
C7_DictEntries ==
    pc = "done" =>
        \A i \in CallIds :
            (CallAt(i).fn = "parseDict" /\ CallAt(i).result # Nil) =>
                /\ CallAt(i).result.t = "dict"
                /\ DOMAIN CallAt(i).result.m = {CallAt(j).key.s : j \in PairsOf(i)}
                /\ \A k \in TokensOf(i) :
                       TokenAt(k).TokenType \in {inlineDictKeyValue, inlineDictKey} =>
                           \E j \in PairsOf(i) :
                               /\ CallAt(j).from = k
                               /\ CallAt(j).key = KeyOf(TokenAt(k).Content[1])
                               /\ IF TokenAt(k).TokenType = inlineDictKeyValue
                                  THEN CallAt(j).result = String(TokenAt(k).Content[2])
                                  ELSE IsBlockValue(k, BlockIndent(i), CallAt(j).result)
                               /\ HasEntryOf(i, j)

\* "a:" with the nested dict {b: "[2]", a: "[3]"} below it, then "b: [4]"
C7_Witness ==
    /\ pc = "done"
    /\ err = NilError
    /\ Len(doc) = 4
    /\ doc[1].TokenType = inlineDictKey
    /\ doc[4].TokenType = inlineDictKeyValue
    /\ result.t = "dict"
    /\ DOMAIN result.m = {KeyA, KeyB}
    /\ result.m[KeyB] = String(LineText(4))
    /\ result.m[KeyA].t = "dict"
    /\ result.m[KeyA].m[KeyB] = String(LineText(2))
    /\ result.m[KeyA].m[KeyA] = String(LineText(3))

\* a call of parseDictKeyValuePairWithMultilineKey that read its key
IsMultilineKeyCall(j) ==
    /\ CallAt(j).fn = "parseDictKeyValuePairWithMultilineKey"
    /\ CallAt(j).key # NilKey

\* C8: consecutive DictKeyMultiline tokens at the same indent are merged
\* into one key by joining their texts with "\n", a tag without text giving
\* ""; the key's value is "" if the next token's indent is not greater than
\* the dict's, otherwise the value parsed from the deeper block.
C8_MultilineKey ==
    pc = "done" =>
        /\ \A j \in CallIds :
               IsMultilineKeyCall(j) =>
                   LET c == CallAt(j)
                       end == RunEnd(c.from, dictKeyMultiline, c.indent)
                   IN  /\ InRun(c.from, dictKeyMultiline, c.indent)
                       /\ c.key = KeyOf(JoinLines(c.from, end))
                       /\ IF TokenAt(end).Indent <= c.indent
                          THEN c.result = String(<<>>) /\ c.err = NilError /\ c.to = end
                          ELSE \E a \in CallIds :
                                   /\ IsValueCallAt(a, end)
                                   /\ c.result = CallAt(a).result
                                   /\ c.err = CallAt(a).err
                                   /\ c.to = CallAt(a).to
        /\ \A i \in CallIds :
               (CallAt(i).fn = "parseDict" /\ CallAt(i).result # Nil) =>
                   /\ \A k \in TokensOf(i) :
                          (TokenAt(k).TokenType = dictKeyMultiline
                           /\ ~InRun(k - 1, dictKeyMultiline, BlockIndent(i))) =>
                              \E j \in PairsOf(i) :
                                  IsMultilineKeyCall(j) /\ CallAt(j).from = k
                   /\ \A j \in PairsOf(i) : IsMultilineKeyCall(j) => HasEntryOf(i, j)

\* ": [1]", ": a" with a deeper string below, then "b: [4]": the two key
\* lines are one key, whose value is the deeper string
C8_Witness ==
    /\ pc = "done"
    /\ err = NilError
    /\ Len(doc) = 4
    /\ doc[1].TokenType = dictKeyMultiline
    /\ doc[2].TokenType = dictKeyMultiline
    /\ doc[3].TokenType = stringMultiline
    /\ result.t = "dict"
    /\ DOMAIN result.m = {KeyA \o <<"\n">> \o KeyA, KeyB}
    /\ result.m[KeyA \o <<"\n">> \o KeyA] = String(LineText(3))


(***************************************************************************)
(* The reference evaluator of inline items.  It does not run an automaton: *)
(* it cuts an item at the commas outside nested brackets, cuts a dict      *)
(* entry at its first colon, strips the blanks around a piece and          *)
(* evaluates a piece that begins with a bracket as an item.                *)
(***************************************************************************)
Opens == {"[", "{"}
Closes == {"]", "}"}
Blanks == {" ", "\t"}

\* the number of brackets open before position i of t
DepthAt(t, i) ==
    Cardinality({j \in 1..(i - 1) : t[j] \in Opens})
        - Cardinality({j \in 1..(i - 1) : t[j] \in Closes})

RECURSIVE Strip(_)
Strip(t) ==
    IF Len(t) = 0 THEN t
    ELSE IF t[1] \in Blanks THEN Strip(Tail(t))
    ELSE IF t[Len(t)] \in Blanks THEN Strip(SubSeq(t, 1, Len(t) - 1))
    ELSE t

\* t is one bracketed item: its first bracket is closed by its last character
IsItem(t) ==
    /\ Len(t) >= 2
    /\ \/ t[1] = "[" /\ t[Len(t)] = "]"
       \/ t[1] = "{" /\ t[Len(t)] = "}"
    /\ \A i \in 2..Len(t) : DepthAt(t, i) >= 1
    /\ DepthAt(t, Len(t) + 1) = 0

\* the pieces of t between the positions of cuts
PiecesOf(t, cuts) ==
    LET n == Cardinality(cuts) + 1
        lo(k) == IF k = 1 THEN 0 ELSE NthOf(cuts, k - 1)
        hi(k) == IF k = n THEN Len(t) + 1 ELSE NthOf(cuts, k)
    IN  [k \in 1..n |-> SubSeq(t, lo(k) + 1, hi(k) - 1)]

\* the elements of a list body, the entries of a dict body
Elements(t) ==
    PiecesOf(t, {i \in 1..Len(t) : t[i] = "," /\ DepthAt(t, i) = 0})

Inside(t) == SubSeq(t, 2, Len(t) - 1)

HasColon(t) == \E i \in 1..Len(t) : t[i] = ":"
FirstColon(t) == Min({i \in 1..Len(t) : t[i] = ":"})
KeyPart(t) == SubSeq(t, 1, FirstColon(t) - 1)
ValuePart(t) == SubSeq(t, FirstColon(t) + 1, Len(t))

IsNested(t) == Len(Strip(t)) > 0 /\ Strip(t)[1] \in Opens

\* a fragment is text without brackets: it is a string
IsFragment(t, inDict) ==
    \A i \in 1..Len(t) :
        /\ t[i] \notin Opens \cup Closes
        /\ inDict => t[i] # ":"

RECURSIVE WellFormed(_)
WellFormedValue(t, inDict) ==
    IF IsNested(t) THEN WellFormed(Strip(t)) ELSE IsFragment(t, inDict)

WellFormed(t) ==
    /\ IsItem(t)
    /\ \A i \in 1..Len(t) : t[i] # "\n"
    /\ LET parts == Elements(Inside(t))
       IN  \/ Len(Inside(t)) = 0
           \/ /\ t[1] = "["
              /\ \A k \in DOMAIN parts : WellFormedValue(parts[k], FALSE)
           \/ /\ t[1] = "{"
              /\ \A k \in DOMAIN parts :
                     /\ HasColon(parts[k])
                     /\ IsFragment(KeyPart(parts[k]), TRUE)
                     /\ WellFormedValue(ValuePart(parts[k]), TRUE)

RECURSIVE Evaluate(_)
EvaluateValue(t) == IF IsNested(t) THEN Evaluate(Strip(t)) ELSE String(Strip(t))

Evaluate(t) ==
    LET parts == Elements(Inside(t))
        keys == [k \in DOMAIN parts |-> Strip(KeyPart(parts[k]))]
    IN  IF t[1] = "["
        THEN IF Len(Inside(t)) = 0 THEN List(<<>>)
             ELSE List([k \in DOMAIN parts |-> EvaluateValue(parts[k])])
        ELSE IF Len(Inside(t)) = 0 THEN Dict(<<>>)
             ELSE Dict([key \in {keys[k] : k \in DOMAIN keys} |->
                          EvaluateValue(ValuePart(
                              parts[Max({k \in DOMAIN keys : keys[k] = key})]))])

\* C9: on every well-formed inline text the automaton returns, without an
\* error, the value the reference evaluator gives.
C9_AutomatonIsReference ==
    (ip.pc \in {"returned", "panic"} /\ WellFormed(call.text)) =>
        /\ ip.pc = "returned"
        /\ ip.err = NilError
        /\ ip.result = Evaluate(call.text)

\* "{a: [1, 2], b: {c: 3}}" has been evaluated
C9_Witness ==
    /\ ip.pc = "returned"
    /\ Len(call.text) = 22
    /\ WellFormed(call.text)
    /\ ip.err = NilError
    /\ ip.result.t = "dict"
    /\ DOMAIN ip.result.m = {<<"a">>, <<"b">>}
    /\ ip.result.m[<<"a">>] = List(<<String(<<"1">>), String(<<"2">>)>>)
    /\ ip.result.m[<<"b">>] = Dict([k \in {<<"c">>} |-> String(<<"3">>)])


\* the four inline items without content, and their values
EmptyItems == {<<"[", "]">>, <<"{", "}">>, <<"[", " ", "]">>, <<"[", ",", "]">>}

ValueOfEmpty(t) ==
    CASE t = <<"[", "]">>      -> List(<<>>)
      [] t = <<"{", "}">>      -> Dict(<<>>)
      [] t = <<"[", " ", "]">> -> List(<<String(<<>>)>>)
      [] t = <<"[", ",", "]">> -> List(<<String(<<>>), String(<<>>)>>)

\* C10: "[]" is the empty list, "{}" the empty dict, "[ ]" the list of one
\* empty string and "[,]" the list of two empty strings; the same values
\* result where such an item is nested in a list or is the value of a key.
C10_EmptyItems ==
    ip.pc \in {"returned", "panic"} =>
        \A x \in EmptyItems :
            /\ call.text = x =>
                   /\ ip.pc = "returned" /\ ip.err = NilError
                   /\ ip.result = ValueOfEmpty(x)
            /\ call.text = <<"[">> \o x \o <<"]">> =>
                   /\ ip.pc = "returned" /\ ip.err = NilError
                   /\ ip.result = List(<<ValueOfEmpty(x)>>)
            /\ \A key \in {<<>>, <<"a">>}, blank \in {<<>>, <<" ">>} :
                   call.text = <<"{">> \o key \o <<":">> \o blank \o x \o <<"}">> =>
                       /\ ip.pc = "returned" /\ ip.err = NilError
                       /\ ip.result = Dict([k \in {key} |-> ValueOfEmpty(x)])

\* "{a: [,]}" has been parsed to the dict of a and the two empty strings
C10_Witness ==
    /\ ip.pc = "returned"
    /\ call.text = <<"{", "a", ":", " ", "[", ",", "]", "}">>
    /\ ip.err = NilError
    /\ ip.result = Dict([k \in {<<"a">>} |-> List(<<String(<<>>), String(<<>>)>>)])


\* the loop is about to read a character for which the table has no successor
NoSuccessor ==
    /\ ip.pc = "loop"
    /\ ip.TextPosition < Len(ip.Text)
    /\ transition(ip.state, inlineTokenFor(ip.Text[ip.TextPosition + 1])) = e

\* C11: whenever the automaton reads a character for which the transition
\* table has no successor in the current state, parse stops (the character
\* is the last one read) and returns an error of code ErrCodeFormat.
C11_NoSuccessorIsFormatError ==
    [][/\ NoSuccessor =>
            /\ ip'.pc = "after"
            /\ isErrorState(ip'.state)
            /\ ip'.TextPosition = ip.TextPosition
       /\ (ip.pc = "after" /\ isErrorState(ip.state)) =>
            /\ ip'.pc = "returned"
            /\ ip'.err.Code = ErrCodeFormat
            /\ ip'.TextPosition = ip.TextPosition]_vars

\* "{a: x, }" has stopped at its "}" with a Format error
C11_Witness ==
    /\ ip.pc = "returned"
    /\ call.text = <<"{", "a", ":", " ", "x", ",", " ", "}">>
    /\ ip.TextPosition = 7
    /\ ip.err.Code = ErrCodeFormat

\* no prefix of t closes the bracket t begins with
NeverClosed(t) == \A i \in 2..(Len(t) + 1) : DepthAt(t, i) >= 1

\* C12: parse terminates on every finite text, reading each character at
\* most once; when the text ends before the outermost bracket is closed
\* (the empty text included) it returns an error of code ErrCodeIO that
\* wraps the end-of-input cause, and a nil value.
C12_TerminatesAndEOF ==
    /\ <>(ip.pc \in {"returned", "panic"})
    /\ [][ip.pc = "loop" =>
            /\ ip'.TextPosition \in {ip.TextPosition, ip.TextPosition + 1}
            /\ ip'.pc = "loop" => ip'.TextPosition = ip.TextPosition + 1
            /\ ip'.TextPosition <= Len(ip.Text)]_vars
    /\ [](ip.pc = "returned" =>
            /\ (NeverClosed(call.text) /\ ip.TextPosition = Len(call.text)) =>
                   ip.err.Code = ErrCodeIO
            /\ ip.err.Code = ErrCodeIO =>
                   /\ NeverClosed(call.text)
                   /\ ip.TextPosition = Len(call.text)
                   /\ ip.err.wrapped = "EOF"
                   /\ ip.result = Nil)

\* "[[a]" has been read to its end
C12_Witness ==
    /\ ip.pc = "returned"
    /\ call.text = <<"[", "[", "b", "]">>
    /\ ip.TextPosition = 4
    /\ ip.err.Code = ErrCodeIO
    /\ ip.err.wrapped = "EOF"
    /\ ip.result = Nil



(***************************************************************************)
(* The properties of the scanner.  A call of NextToken that starts with    *)
(* the buffer on the first character of a line of the text returns a token *)
(* with that line's number and column 1.                                   *)
(***************************************************************************)
ScanInput == sc.s.Buf.Input

\* a blank line or a comment line: its first character that is neither a
\* space nor a tab, if it has one, is "#"
BlankOrComment(l) ==
    LET k == Min({i \in 1..(Len(l) + 1) : i = Len(l) + 1 \/ l[i] \notin {" ", "\t"}})
    IN  k = Len(l) + 1 \/ l[k] = "#"

ContentLines == SelectSeq(ScanInput, LAMBDA l : ~BlankOrComment(l))

HasContent == Len(ContentLines) > 0

\* the calls after the first that started at the beginning of a line
LineStartCalls ==
    {k \in 2..Len(sc.tokens) :
        sc.tokens[k].ColNo = 1 /\ sc.tokens[k].LineNo \in 1..Len(ScanInput)}

LineOf(k) == ScanInput[sc.tokens[k].LineNo]

\* the number of spaces at the beginning of l
LeadingSpaces(l) == Min({i \in 0..Len(l) : i = Len(l) \/ l[i + 1] # " "})

\* l without those spaces
Body(l) == SubSeq(l, LeadingSpaces(l) + 1, Len(l))

TagChars == {"-", ">", ":"}

\* the first non-space character of l is a tag character followed by a
\* character that is neither a space nor the end of the line
TagThenOther(l) ==
    /\ Len(Body(l)) >= 2
    /\ Body(l)[1] \in TagChars
    /\ Body(l)[2] # " "

\* Parse has returned on a text whose only content is "-:: x"
StrangeKeyParsed ==
    /\ pc # "scan"
    /\ ContentLines = << <<"-", ":", ":", " ", "x">> >>

\* C13: a tag character followed by a character other than space or end of
\* line is not a tag: the line is scanned by the plain-key rule, so "-:: x"
\* is accepted and decodes to the dict {"-:": "x"}.
C13_TagCharStartsKey ==
    /\ \A k \in LineStartCalls :
           TagThenOther(LineOf(k)) => sc.tokens[k].Error = NilError
    /\ StrangeKeyParsed =>
           /\ pc = "done"
           /\ err = NilError
           /\ result = Dict([key \in {<<"-", ":">>} |-> String(<<"x">>)])

PlainLine(l) == Len(Body(l)) > 0 /\ Body(l)[1] \notin TagChars \cup {"[", "{", "\t"}

\* the positions of l with a ":" followed by a space or the end of the line
KeyEnds(l) ==
    {i \in 1..Len(l) : l[i] = ":" /\ (i = Len(l) \/ l[i + 1] = " ")}

\* C15: for a line that starts neither a tag nor an inline item the scanner
\* takes as key the text before the first ":" that is followed by a space
\* or the end of the line, trimmed; the token is an InlineDictKeyValue when
\* text follows and an InlineDictKey otherwise; without such a ":" the
\* token carries a Format error.
C15_PlainKey ==
    \A k \in LineStartCalls :
        PlainLine(LineOf(k)) =>
            LET l == Body(LineOf(k))
                tok == sc.tokens[k]
            IN  IF KeyEnds(l) = {}
                THEN tok.Error.Code >= ErrCodeFormat
                ELSE /\ tok.Error = NilError
                     /\ Len(tok.Content) >= 1
                     /\ tok.Content[1] = TrimSpace(SubSeq(l, 1, Min(KeyEnds(l)) - 1))
                     /\ tok.TokenType =
                            IF Min(KeyEnds(l)) + 1 < Len(l)
                            THEN inlineDictKeyValue ELSE inlineDictKey

\* the white space that l begins with holds a tab
TabInIndentation(l) ==
    \E i \in 1..Len(l) : l[i] = "\t" /\ \A j \in 1..(i - 1) : l[j] \in WhiteSpace

\* C16: the indent of a token is the number of spaces its line begins
\* with; a tab in the indentation of a content line is illegal: the scanner
\* returns a format error for the line.
C16_IndentAndTabs ==
    \A k \in LineStartCalls :
        /\ sc.tokens[k].Indent = LeadingSpaces(LineOf(k))
        /\ TabInIndentation(LineOf(k)) => sc.tokens[k].Error.Code >= ErrCodeFormat

\* the first content line begins with a space
ToplevelIndented == HasContent /\ ContentLines[1][1] = " "

\* C17: if the first content line, after the blank and comment lines
\* before it, begins with a space, the first call of NextToken returns a
\* token with the error ErrCodeFormatToplevelIndent and Parse fails with
\* that error; if it begins in column 0 that error is never raised.
C17_ToplevelIndent ==
    /\ Len(sc.tokens) >= 1 =>
           IF ToplevelIndented
           THEN /\ sc.tokens[1].Error.Code = ErrCodeFormatToplevelIndent
                /\ sc.tokens[1].TokenType = docRoot
           ELSE sc.tokens[1].Error = NilError
    /\ \A k \in 2..Len(sc.tokens) :
           sc.tokens[k].Error.Code # ErrCodeFormatToplevelIndent
    /\ pc # "scan" =>
           IF ToplevelIndented
           THEN /\ pc = "done"
                /\ err.Code = ErrCodeFormatToplevelIndent
                /\ err = doc[1].Error
                /\ result = Nil
           ELSE err.Code # ErrCodeFormatToplevelIndent

\* Parse has failed on the text of TestScannerTopLevelIndent with the
\* error of the first token
C17_Witness ==
    /\ ScanInput = << <<"#", " ", "c">>, <<" ", " ", " ", "d", ":", " ", "f">> >>
    /\ pc = "done"
    /\ doc[1].Error.Code = ErrCodeFormatToplevelIndent
    /\ doc[1].Error.Line = 2
    /\ err = doc[1].Error

\* C18: on a text without a content line (empty, or only blank and comment
\* lines) the first token is an EmptyDocument without error, and Parse
\* returns a nil value and a nil error.
C18_EmptyDocument ==
    ~HasContent =>
        /\ Len(sc.tokens) >= 1 =>
               /\ sc.tokens[1].TokenType = emptyDocument
               /\ sc.tokens[1].Error = NilError
        /\ pc # "scan" =>
               /\ pc = "done"
               /\ result = Nil
               /\ err = NilError
               /\ parser.n = 1

\* a blank line, a comment line and a line of two blanks have been parsed
C18_Witness ==
    /\ ScanInput = << <<>>, <<" ", "#">>, <<" ", "\t">> >>
    /\ pc = "done"
    /\ doc[1].TokenType = emptyDocument
    /\ result = Nil
    /\ err = NilError


(***************************************************************************)
(* The properties of the TopLevel option.                                  *)
(***************************************************************************)
\* the value decoded from the document: what the outermost parseAny
\* returned, nil for a document without content
Decoded == IF Len(parser.calls) = 0 THEN Nil ELSE CallAt(Len(parser.calls)).result

\* Parse has returned without error
Succeeded == pc = "done" /\ err = NilError /\ parser.panic = ""

\* C19: with TopLevel("list") a successful Parse returns a naturally
\* decoded list unchanged and any other decoded value v as the list [v];
\* with TopLevel("dict") it returns a naturally decoded dict unchanged and
\* any other decoded value as a dict of one key with that value; without
\* an option it returns the decoded value.
C19_TopLevelShapes ==
    Succeeded =>
        /\ opts = <<>> => result = Decoded
        /\ opts = << <<"l", "i", "s", "t">> >> =>
               result = IF Decoded.t = "list" THEN Decoded ELSE List(<<Decoded>>)
        /\ opts = << <<"d", "i", "c", "t">> >> =>
               IF Decoded.t = "dict" THEN result = Decoded
               ELSE /\ result.t = "dict"
                    /\ Cardinality(DOMAIN result.m) = 1
                    /\ \A k \in DOMAIN result.m : result.m[k] = Decoded

\* the one-line dict "a: [1]" has been parsed with TopLevel("list")
C19_Witness ==
    /\ Succeeded
    /\ opts = << <<"l", "i", "s", "t">> >>
    /\ Len(doc) = 1
    /\ Decoded = Dict([k \in {KeyA} |-> String(LineText(1))])
    /\ result = List(<<Decoded>>)

\* C20: with TopLevel("dict.<suffix>") a successful Parse returns a dict
\* with exactly one key, equal to the suffix, whose value is the decoded
\* value, a decoded dict included; for every suffix, the empty one and the
\* suffixes "list" and "dict" included.
C20_DictSuffix ==
    (Succeeded /\ Len(opts) = 1 /\ HasPrefix(opts[1], <<"d", "i", "c", "t", ".">>)) =>
        result = Dict([k \in {SubSeq(opts[1], 6, Len(opts[1]))} |-> Decoded])

\* the strings that name a mode of TopLevel
IsMode(top) ==
    \/ top = <<"l", "i", "s", "t">>
    \/ top = <<"d", "i", "c", "t">>
    \/ Len(top) >= 5 /\ SubSeq(top, 1, 5) = <<"d", "i", "c", "t", ".">>

\* C21: a TopLevel option whose string is neither "list" nor "dict" nor
\* begins with "dict." makes Parse return an ErrCodeUsage error and a nil
\* value before the input is touched, even when the reader is nil;
\* "dict.config" is accepted without error.
C21_UsageError ==
    pc = "done" =>
        /\ (\E i \in 1..Len(opts) : ~IsMode(opts[i])) =>
               /\ err.Code = ErrCodeUsage
               /\ result = Nil
               /\ parser.n = 0
               /\ parser.calls = <<>>
        /\ (\A i \in 1..Len(opts) : IsMode(opts[i])) =>
               /\ err.Code # ErrCodeUsage
               /\ doc = NilReader => err.Code = ErrCodeFormatNoInput
        /\ (opts = << <<"d", "i", "c", "t", ".", "c", "o", "n", "f", "i", "g">> >>
            /\ doc = <<>>) => err = NilError

\* Parse(nil, TopLevel("dict-config")) has returned the usage error
C21_Witness ==
    /\ pc = "done"
    /\ doc = NilReader
    /\ opts = << <<"d", "i", "c", "t", "-", "c", "o", "n", "f", "i", "g">> >>
    /\ err.Code = ErrCodeUsage
    /\ result = Nil

(***************************************************************************)
(* The properties of the line source.                                      *)
(***************************************************************************)
\* the lines of text t from position i on, cur being the line begun: a line
\* ends at LF, at CR LF and at a CR that no LF follows
RECURSIVE LinesFrom(_, _, _)
LinesFrom(t, i, cur) ==
    IF i > Len(t) THEN (IF cur = <<>> THEN <<>> ELSE <<cur>>)
    ELSE IF t[i] = "\n" THEN <<cur>> \o LinesFrom(t, i + 1, <<>>)
    ELSE IF t[i] = "\r"
    THEN IF i < Len(t) /\ t[i + 1] = "\n"
         THEN <<cur>> \o LinesFrom(t, i + 2, <<>>)
         ELSE <<cur>> \o LinesFrom(t, i + 1, <<>>)
    ELSE LinesFrom(t, i + 1, Append(cur, t[i]))

\* C22: the line source ends a line at every LF, at every CR that no LF
\* follows and at every CR LF pair, in any mixture, and no line it hands out
\* contains CR or LF; "Hello\nWorld\r?!\n" gives Hello, World and ?!.
C22_LineEnds ==
    pc \in {"lines", "eof"} =>
        /\ Len(sc.lines) <= Len(LinesFrom(doc, 1, <<>>))
        /\ \A i \in 1..Len(sc.lines) :
              /\ sc.lines[i] = LinesFrom(doc, 1, <<>>)[i]
              /\ \A j \in 1..Len(sc.lines[i]) : sc.lines[i][j] \notin {"\r", "\n"}
        /\ pc = "eof" => sc.lines = LinesFrom(doc, 1, <<>>)
        /\ (pc = "eof" /\ doc = RawExample) =>
               sc.lines = << <<"H", "e", "l", "l", "o">>,
                             <<"W", "o", "r", "l", "d">>, <<"?", "!">> >>

\* the text of TestLineBufferSplitter has been read to its end
C22_Witness ==
    /\ pc = "eof"
    /\ doc = RawExample
    /\ Len(sc.lines) = 3
    /\ sc.lines[2] = <<"W", "o", "r", "l", "d">>

(***************************************************************************)
(* The properties of the lines that are skipped.                           *)
(***************************************************************************)
\* the index of the first content line after line i, Len(ScanInput) + 1 if
\* there is none
NextContentLine(i) ==
    Min({j \in (i + 1)..(Len(ScanInput) + 1) :
            j > Len(ScanInput) \/ ~BlankOrComment(ScanInput[j])})

\* what Parse makes of a text: how it ends, the value and the error code
Decode(input) ==
    With(scanAll(newScanner(input), MaxCalls),
         LAMBDA stream :
            With(ParserParse(newParser, stream.tokens),
                 LAMBDA r :
                    IF r.p.n <= Len(stream.tokens)
                    THEN [pc |-> "done", result |-> r.result, code |-> r.err.Code]
                    ELSE [pc |-> IF stream.halt # "" THEN stream.halt ELSE "beyond",
                          result |-> Nil, code |-> NoError]))

\* C23: blank lines and comment lines produce no token and do not change the
\* decoded value, wherever they stand, yet each counts as a line: the LineNo
\* of a token is the 1-based index of the content line it was scanned from.
C23_IgnoredLines ==
    /\ \A k \in 1..Len(sc.tokens) :
          /\ sc.tokens[k].LineNo \in 1..Len(ScanInput) =>
                 ~BlankOrComment(ScanInput[sc.tokens[k].LineNo])
          /\ sc.tokens[k].LineNo =
                 IF k = 1 THEN NextContentLine(0)
                 ELSE IF sc.tokens[k].LineNo = sc.tokens[k - 1].LineNo
                 THEN sc.tokens[k - 1].LineNo
                 ELSE NextContentLine(sc.tokens[k - 1].LineNo)
    /\ \A k \in LineStartCalls :
          sc.tokens[k].TokenType \in {listItem, listItemMultiline} =>
              Body(LineOf(k))[1] = "-"
    /\ pc # "scan" =>
          Decode(ContentLines) = [pc |-> pc, result |-> result, code |-> err.Code]


\* C24: IsIgnoredLine is true exactly for a line that is empty, or holds
\* only spaces and tabs, or has "#" as its first character that is neither;
\* for every other line, one that holds only a form feed included, it is
\* false.
C24_IsIgnoredLine ==
    pc = "tested" => (sc.ignored <=> BlankOrComment(sc.Text))

\* the first non-space character of l is a tag character and a space follows
TagThenSpace(l) ==
    /\ Len(Body(l)) >= 2
    /\ Body(l)[1] \in TagChars
    /\ Body(l)[2] = " "

\* after the call that returned the last token the buffer stands on the
\* content line that follows the line of that token
OnNextContentLine ==
    LET n == NextContentLine(sc.tokens[Len(sc.tokens)].LineNo)
    IN  /\ sc.s.Buf.CurrentLine = n
        /\ n <= Len(ScanInput) =>
               /\ sc.s.Buf.Text = ScanInput[n]
               /\ sc.s.Buf.Lookahead = ScanInput[n][1]
               /\ sc.s.Buf.Cursor = 1

\* C25: ReadLineRemainder returns the characters of the line from the
\* look-ahead to its end, never the end-of-line marker, and the empty string
\* at the end of the line: the content of a token for a tag and a space is
\* the text after that space, empty for "- ", and the buffer then stands on
\* the next content line.
C25_LineRemainder ==
    \A k \in LineStartCalls :
        TagThenSpace(LineOf(k)) =>
            /\ sc.tokens[k].Content =
                   <<SubSeq(Body(LineOf(k)), 3, Len(Body(LineOf(k))))>>
            /\ \A j \in 1..Len(sc.tokens[k].Content[1]) :
                   sc.tokens[k].Content[1][j] # eolMarker
            /\ k = Len(sc.tokens) => OnNextContentLine


(***************************************************************************)
(* The properties of string blocks.                                        *)
(***************************************************************************)
\* l is a ">" line whose text after "> " looks like a comment
StringLineLikeComment(l) ==
    /\ Len(Body(l)) >= 3
    /\ Body(l)[1] = ">"
    /\ Body(l)[2] = " "
    /\ \E i \in 3..Len(Body(l)) :
          Body(l)[i] = "#" /\ \A j \in 3..(i - 1) : Body(l)[j] \in {" ", "\t"}

\* C26: a line of a ">" string block whose content looks like a comment is
\* not skipped and its content is part of the string, character by
\* character; a line that begins with "#" between two such lines is skipped.
C26_CommentInStringBlock ==
    /\ \A i \in 1..Len(ScanInput) :
          StringLineLikeComment(ScanInput[i]) => ~BlankOrComment(ScanInput[i])
    /\ \A k \in LineStartCalls :
          StringLineLikeComment(LineOf(k)) =>
              /\ sc.tokens[k].TokenType = stringMultiline
              /\ sc.tokens[k].Error = NilError
              /\ sc.tokens[k].Content =
                     <<SubSeq(Body(LineOf(k)), 3, Len(Body(LineOf(k))))>>
    /\ (Len(sc.tokens) >= 2 /\ StringLineLikeComment(ScanInput[1])) =>
          sc.tokens[2].LineNo = 1
    /\ (pc # "scan" /\ ScanInput \in StringBlockExamples
           /\ ScanInput[1] # <<">", " ", " ", "#">>) =>
          /\ pc = "done"
          /\ result.t = "string"
          /\ Len(ScanInput) = 1 => result.s = <<"#">>
          /\ (Len(ScanInput) = 3 /\ ScanInput[2][1] = "#") =>
                 result.s = <<"#", " ", "c", "\n", "e">>
          /\ (Len(ScanInput) = 3 /\ ScanInput[2][1] = ">") =>
                 result.s = <<"a", "\n", "#", " ", "c", "\n", "b">>

\* Parse has returned on the block "> a", "> # c", "> b"
C26_Witness ==
    /\ pc = "done"
    /\ Len(ScanInput) = 3
    /\ ScanInput[2] = <<">", " ", "#", " ", "c">>
    /\ result.s = <<"a", "\n", "#", " ", "c", "\n", "b">>

(***************************************************************************)
(* The position an error carries.                                          *)
(***************************************************************************)
\* the codes of the Format class and of the IO class
PositionedCodes ==
    {ErrCodeIO, ErrCodeFormat, ErrCodeFormatNoInput,
     ErrCodeFormatToplevelIndent, ErrCodeFormatIllegalTag}

\* C27: every error of the Format class or the IO class that Parse returns
\* carries the line number, counted from 1, and the column of a token that
\* Parse has read, the token at which the error was detected; so do the
\* errors "invalid indent", "partial dedent" and "unused content".
C27_ErrorPosition ==
    (pc = "done" /\ err.Code \in PositionedCodes) =>
        /\ err.Line >= 1
        /\ \E k \in 1..parser.n :
              /\ err.Line = NextToken(doc, k).LineNo
              /\ err.Column = NextToken(doc, k).ColNo


(***************************************************************************)
(* The properties of concurrent calls.                                     *)
(***************************************************************************)
\* C28: the recognizers of blank lines and of comment lines are set once
\* and only read afterwards, and in no interleaving of two calls does a call
\* find one of them set and the other still nil: every call returns what
\* IsIgnoredLine returns for its line.
C28_NoPartialInit ==
    pc = "race" =>
        /\ Cardinality(sc.blankPattern) <= 1
        /\ Cardinality(sc.commentPattern) <= 1
        /\ \A g \in Goroutines :
              /\ call[g].pc # "panicked"
              /\ call[g].pc = "returned" =>
                     call[g].ignored =
                         IF BlankOrComment(call[g].Text) THEN "true" ELSE "false"


(***************************************************************************)
(* The properties of the encoder.                                          *)
(***************************************************************************)
EncodedLines == LinesFrom(doc, 1, <<>>)

\* a line "key:" or "key: value" of a dict
IsKeyLine(l) ==
    /\ Body(l) # <<>>
    /\ Body(l)[1] \notin {"-", ">", ":", "{"}
    /\ IndexByte(Body(l), ":") > 0

KeyOfLine(l) == SubSeq(Body(l), 1, IndexByte(Body(l), ":") - 1)

\* lines i and j hold keys of the same dict: they have the same indent
\* and no line of a smaller indent stands between them, an empty dict "{}",
\* which is written without indent, aside
SameDict(i, j) ==
    /\ IsKeyLine(EncodedLines[i])
    /\ IsKeyLine(EncodedLines[j])
    /\ LeadingSpaces(EncodedLines[i]) = LeadingSpaces(EncodedLines[j])
    /\ \A n \in (i + 1)..(j - 1) :
          \/ EncodedLines[n] = <<"{", "}">>
          \/ LeadingSpaces(EncodedLines[n]) > LeadingSpaces(EncodedLines[i])
          \/ /\ LeadingSpaces(EncodedLines[n]) = LeadingSpaces(EncodedLines[i])
             /\ IsKeyLine(EncodedLines[n])

\* C29: Encode writes the entries of every dict, at every depth, in
\* ascending order of their keys, so the bytes do not depend on the order in
\* which the map yields its keys.
C29_SortedKeys ==
    pc \in {"encoded", "parsed"} =>
        /\ \A o \in KeyOrders : Encode(call.tree, o) = doc
        /\ \A i, j \in 1..Len(EncodedLines) :
              (i < j /\ SameDict(i, j)) =>
                  Less(KeyOfLine(EncodedLines[i]), KeyOfLine(EncodedLines[j]))

\* a dict of three keys with a nested dict of two keys has been encoded,
\* the map having listed the keys in descending order
C29_Witness ==
    /\ pc = "encoded"
    /\ call.order = << <<"b">>, <<"a", "b">>, <<"a">> >>
    /\ call.tree.t = "dict"
    /\ DOMAIN call.tree.m = EncKeys
    /\ call.tree.m[<<"b">>].t = "dict"
    /\ DOMAIN call.tree.m[<<"b">>].m = {<<"a">>, <<"b">>}

\* C30: for every value of strings, lists and dicts without multi-line
\* strings, the empty list, the empty dict and the empty string included,
\* Parse on the bytes of Encode returns a value equal to it, without error.
C30_RoundTrip ==
    pc \notin {"encode", "encoded"} =>
        /\ pc = "parsed"
        /\ err = NilError
        /\ result = call.tree


\* tree holds, at some depth, a value that is no string, list or
\* string-keyed dict
RECURSIVE HasForeign(_)
HasForeign(tree) ==
    CASE tree.t = "string" -> FALSE
      [] tree.t = "list" -> \E i \in 1..Len(tree.v) : HasForeign(tree.v[i])
      [] tree.t = "dict" -> \E k \in DOMAIN tree.m : HasForeign(tree.m[k])
      [] OTHER -> TRUE

\* C31: Encode returns an error of the Schema class for every tree that
\* holds, at any depth, a number, nil, a func, a struct or a map whose keys
\* are no strings, and for no other tree.
C31_SchemaError ==
    pc = "encoded" => (err.Code = ErrCodeSchema <=> HasForeign(call.tree))

\* a line whose tag leaves the value to the following, deeper lines
DefersValue(tok) ==
    tok.TokenType \in {listItemMultiline, inlineDictKey, dictKeyMultiline}

\* the indents of the blocks that are open after line k of the document,
\* the outermost first
RECURSIVE OpenBlocks(_)
OpenBlocks(k) ==
    IF k = 1 THEN <<doc[1].Indent>>
    ELSE LET open == OpenBlocks(k - 1)
             ind == doc[k].Indent
         IN  IF \E j \in 1..Len(open) : open[j] = ind
             THEN SubSeq(open, 1, CHOOSE j \in 1..Len(open) : open[j] = ind)
             ELSE Append(open, ind)

\* line k keeps the indentation discipline
Disciplined(k) ==
    \/ \E j \in 1..Len(OpenBlocks(k - 1)) : OpenBlocks(k - 1)[j] = doc[k].Indent
    \/ /\ doc[k].Indent > doc[k - 1].Indent
       /\ DefersValue(doc[k - 1])

\* C32: in every document that Parse accepts, each content line after the
\* first has the indent of a block that is still open, or is deeper than
\* the line before it and that line is a tag that defers its value; a
\* document with any other indentation makes Parse return an error.
C32_IndentDiscipline ==
    (pc = "done" /\ err = NilError) =>
        \A k \in 2..Len(doc) : Disciplined(k)

\* an accepted document that dedents from the third level to the first
C32_Witness ==
    /\ pc = "done"
    /\ err = NilError
    /\ Len(doc) >= 3
    /\ \E k \in 3..Len(doc) :
           /\ Len(OpenBlocks(k - 1)) >= 2
           /\ doc[k].Indent = OpenBlocks(k - 1)[1]
           /\ doc[k].Indent < doc[k - 1].Indent
    /\ \E k \in 2..Len(doc) : doc[k].Indent > doc[k - 1].Indent

\* C33: every iteration of the list-item loop consumes at least one token
\* or leaves the loop, also when the current list-item token has an indent
\* different from the indent of the list being built.
C33_LoopProgress ==
    [][ListItemsIteration =>
          \/ parser'.pos > parser.pos
          \/ Len(parser'.frames) < Len(parser.frames)]_vars

\* a reduced entry with Keys has as many keys as values
Balanced(entry) == entry.hasKeys => Len(entry.Keys) = Len(entry.Values)

Reduces == Len(ip'.reduced) = Len(ip.reduced) + 1 /\ ip'.pc # "panic"

\* the item that the step reduces
ReducedItem == ReduceToItem(ip'.reduced[Len(ip'.reduced)])

\* the entry below the top entry before the step, and the same entry after
ParentBefore == ip.stack[Len(ip.stack) - 1]
ParentAfter == ip'.stack[Len(ip'.stack)]

\* the character that the step reads
StepChar == ip.Text[ip.TextPosition + 1]

\* C35: when a nested inline item is accepted its entry is popped, the
\* reduced item is appended to the entry below it, under that entry's
\* pending key when it is a dict, and the automaton resumes in the ghost
\* state of that entry: 5 for a dict, 10 for a list, where only whitespace,
\* a comma or the closing bracket of that entry is accepted.  When the
\* outermost entry is popped its item is the result of parse.
C35_NestedAccept ==
    [][(InlineLoop =>
        /\ Reduces =>
              /\ ip.reduced = SubSeq(ip'.reduced, 1, Len(ip.reduced))
              /\ Len(ip'.stack) = Len(ip.stack) - 1
              /\ ip'.result = ReducedItem
              /\ Len(ip.stack) > 1 =>
                    /\ ip'.pc = "loop"
                    /\ ParentAfter.Values = Append(ParentBefore.Values, ReducedItem)
                    /\ ParentBefore.hasKeys =>
                          /\ ParentBefore.Key.set
                          /\ ParentAfter.Keys =
                                 Append(ParentBefore.Keys, ParentBefore.Key.s)
                          /\ ip'.state = 5
                    /\ ~ParentBefore.hasKeys =>
                          /\ ParentAfter.Keys = ParentBefore.Keys
                          /\ ip'.state = 10
              /\ Len(ip.stack) = 1 => ip'.pc = "after" /\ ~isErrorState(ip'.state)
        /\ (ip.state \in {5, 10} /\ ip.TextPosition < Len(ip.Text)) =>
              IF StepChar = " " THEN ip'.state = ip.state /\ ~Reduces
              ELSE IF StepChar = ","
                   THEN ip'.state = (IF ip.state = 5 THEN 6 ELSE 7) /\ ~Reduces
              ELSE IF StepChar = (IF ip.state = 5 THEN "}" ELSE "]") THEN Reduces
              ELSE isErrorState(ip'.state) /\ ~Reduces
        /\ (ip'.pc = "after" /\ ~isErrorState(ip'.state)) => Reduces
     ) /\
     ((InlineReturn /\ ~isErrorState(ip.state)) =>
            /\ ip'.pc = "returned"
            /\ ip'.err = NilError
            /\ ip'.result = ReduceToItem(ip.reduced[Len(ip.reduced)]))
    ]_vars

\* "{a:[x]}" and its like: a list was accepted in the value position of a
\* dict, and parse returned the dict
C35_Witness ==
    /\ ip.pc = "returned"
    /\ ip.err = NilError
    /\ Len(ip.reduced) = 2
    /\ ~ip.reduced[1].hasKeys
    /\ ip.reduced[2].hasKeys
    /\ ip.reduced[2].Values = <<ReduceToItem(ip.reduced[1])>>
    /\ ip.result = ReduceToItem(ip.reduced[2])

\* the state agrees with the shape of the top entry, and a pending key is
\* set on entries with Keys only
StateFitsTop ==
    /\ (ip.pc = "loop" /\ ip.state \in 1..6) => tos(ip.stack).hasKeys
    /\ (ip.pc = "loop" /\ ip.state \in 7..10) => ~tos(ip.stack).hasKeys
    /\ \A i \in DOMAIN ip.stack : ip.stack[i].Key.set => ip.stack[i].hasKeys
    /\ \A i \in DOMAIN ip.reduced : ip.reduced[i].Key.set => ip.reduced[i].hasKeys

\* C36: at every step of the inline automaton, in the states 1 to 6 the top
\* entry is dict-shaped and in the states 7 to 10 it is list-shaped, and a
\* pending key is set on dict-shaped entries only; hence "]" reduces list
\* entries only, "}" reduces dict entries only, and no key is pushed onto
\* a list-shaped entry.
C36_StateMatchesFrame ==
    /\ []StateFitsTop
    /\ [][(InlineLoop /\ Reduces) =>
             /\ StepChar \in {"]", "}"}
             /\ StepChar = "}" <=> ip'.reduced[Len(ip'.reduced)].hasKeys
             /\ Len(ip.stack) > 1 => pushKVok(SubSeq(ip.stack, 1, Len(ip.stack) - 1),
                                              ParentBefore.Key)]_vars

\* a dict nested in a list nested in a dict was parsed
C36_Witness ==
    /\ ip.pc = "loop"
    /\ ip.state \in 1..6
    /\ Len(ip.stack) = 3
    /\ ip.stack[2].hasKeys = FALSE
    /\ ip.stack[1].Key.set

\* the brackets among the first k characters of the inline text that open
\* an item and that close one
Opened(k) == Cardinality({i \in 1..k : ip.Text[i] \in {"[", "{"}})
Closed(k) == Cardinality({i \in 1..k : ip.Text[i] \in {"]", "}"}})

\* C37: during an inline parse the depth of the stack is the number of
\* brackets opened and not yet closed (the bracket that opens the item
\* counts from the start, the characters read count after it); parse
\* returns as soon as the bracket that closes the outermost item is read:
\* without an error and with the value of the text up to that bracket,
\* whatever follows it.
C37_DepthAndTrailingText ==
    ip.pc \in {"loop", "after", "returned"} =>
        /\ Len(ip.stack) = Opened(ip.TextPosition) - Closed(ip.TextPosition)
                             + (IF ip.TextPosition = 0 THEN 1 ELSE 0)
        /\ ip.pc = "loop" => Len(ip.stack) > 0
        /\ (ip.pc = "returned" /\ Len(ip.stack) = 0) =>
              /\ ip.err = NilError
              /\ ip.TextPosition <= Len(ip.Text)
              /\ ip.result = inlineParse(newInlineParser, call.initial,
                                         SubSeq(ip.Text, 1, ip.TextPosition)).result
              /\ ip.result # Nil

\* a nested item was closed and text other than blanks follows it
C37_Witness ==
    /\ ip.pc = "returned"
    /\ Len(ip.stack) = 0
    /\ Len(ip.reduced) = 2
    /\ ip.TextPosition < Len(ip.Text)
    /\ ip.Text[ip.TextPosition + 1] \notin {" ", "\t"}
    /\ ip.err = NilError

\* the pair of the dict of call i that is the last one with the key of pair j
LastPairOf(i, j) ==
    CHOOSE l \in PairsOf(i) :
        /\ CallAt(l).key = CallAt(j).key
        /\ \A h \in PairsOf(i) : CallAt(h).key = CallAt(l).key => h <= l

\* the document is a dict of "key: value" lines at indent 0
FlatDict ==
    /\ Len(doc) > 0
    /\ \A k \in 1..Len(doc) :
           doc[k].TokenType = inlineDictKeyValue /\ doc[k].Indent = 0

\* the last line of a flat dict that has the key of line k
LastLineOf(k) ==
    CHOOSE l \in 1..Len(doc) :
        /\ doc[l].Content[1] = doc[k].Content[1]
        /\ \A h \in 1..Len(doc) : doc[h].Content[1] = doc[l].Content[1] => h <= l

\* the inline dict {a:x,a:d}, d the number of the line
IsTwiceA(tok) ==
    /\ tok.TokenType = inlineDict
    /\ Len(tok.Content[1]) = 9
    /\ SubSeq(tok.Content[1], 1, 7) = <<"{", "a", ":", "x", ",", "a", ":">>

\* C38: a key that occurs more than once in one dict, in block form or
\* inline, raises no error, and the dict holds one entry for the key whose
\* value is that of the key's last occurrence.
C38_LastKeyWins ==
    pc = "done" =>
        /\ \A i \in CallIds :
               (CallAt(i).fn = "parseDict" /\ CallAt(i).result # Nil) =>
                   \A j \in PairsOf(i) :
                       CallAt(i).result.m[CallAt(j).key.s] =
                           CallAt(LastPairOf(i, j)).result
        /\ FlatDict =>
               /\ err = NilError
               /\ result.t = "dict"
               /\ DOMAIN result.m = {doc[k].Content[1] : k \in 1..Len(doc)}
               /\ \A k \in 1..Len(doc) :
                      result.m[doc[k].Content[1]] =
                          String(doc[LastLineOf(k)].Content[2])
        /\ (Len(doc) = 1 /\ IsTwiceA(doc[1])) =>
               /\ err = NilError
               /\ result = Dict([k \in {KeyA} |-> String(<<doc[1].Content[1][8]>>)])
        /\ \A k \in 2..Len(doc) :
               (IsTwiceA(doc[k]) /\ err = NilError /\ doc[k - 1].TokenType = inlineDictKey) =>
                   \E i \in CallIds :
                       /\ CallAt(i).fn = "parseDictKeyAnyValuePair"
                       /\ CallAt(i).from = k
                       /\ CallAt(i).result =
                              Dict([h \in {KeyA} |-> String(<<doc[k].Content[1][8]>>)])

\* a: x / b: x / a: / {a:x,a:4} below it: the key a occurs twice in the
\* block and twice in the inline dict that is its last value
C38_Witness ==
    /\ pc = "done"
    /\ err = NilError
    /\ Len(doc) = 4
    /\ IsTwiceA(doc[4])
    /\ doc[1].TokenType = inlineDictKeyValue /\ doc[1].Content[1] = KeyA
    /\ result.t = "dict"
    /\ DOMAIN result.m = {KeyA, KeyB}
    /\ result.m[KeyA] = Dict([h \in {KeyA} |-> String(<<"4">>)])

\* the stream of the buffer is exhausted
Exhausted == sc.Buf.isEof >= 1

\* C39: the eof-phase of the line buffer only moves forward, from 0 to 1 to
\* 2 and not beyond; once the stream is exhausted every further call of
\* AdvanceLine returns the EOF sentinel, IsEof stays true and the
\* look-ahead is not loaded again from the text of an earlier line.
C39_EofPhase ==
    [][/\ sc'.Buf.isEof \in {sc.Buf.isEof, sc.Buf.isEof + 1}
       /\ sc'.Buf.isEof <= 2
       /\ (BufAdvanceLine /\ Exhausted) =>
              /\ sc'.ret = errAtEof
              /\ IsEof(sc'.Buf)
              /\ sc'.Buf.Line = <<>>
              /\ sc'.Buf.Lookahead = sc.Buf.Lookahead]_vars

\* the line number of the j-th content line of the text
RECURSIVE ContentLineNo(_)
ContentLineNo(j) ==
    IF j = 1 THEN NextContentLine(0) ELSE NextContentLine(ContentLineNo(j - 1))

\* C40: each call of NextToken returns one token: the first call returns
\* DocRoot, or EmptyDocument for a text without content, and consumes no
\* character of the first content line; the calls after it return one token
\* per content line, in the order of the lines; once the lines are used up
\* every further call returns an Eof token with indent 0.
C40_TokenPerLine ==
    /\ sc.halt = ""
    /\ Len(sc.tokens) >= 1 =>
           sc.tokens[1].TokenType = (IF HasContent THEN docRoot ELSE emptyDocument)
    /\ Len(sc.tokens) = 1 => sc.s.Buf = newLineBuffer(ScanInput)
    /\ \A k \in 2..Len(sc.tokens) :
           IF k - 1 <= Len(ContentLines)
           THEN /\ sc.tokens[k].LineNo = ContentLineNo(k - 1)
                /\ sc.tokens[k].TokenType \notin {eof, docRoot, emptyDocument}
           ELSE /\ sc.tokens[k].TokenType = eof
                /\ sc.tokens[k].Indent = 0
                /\ sc.tokens[k].Error = NilError

====
